---- MODULE Spec2Model ----
(***************************************************************************)
(* A state-machine model of the arbitrage engine of crypto_arbitrage_bot:  *)
(*   - RiskManager (risk_manager.py): the capital ledger, the deployment   *)
(*     check and the kill switch, driven call by call (Spec);              *)
(*   - ArbitrageBot (bot_engine.py) with TradeExecutor                     *)
(*     (core/trade_executor.py): run/start/stop, the engine loop, the      *)
(*     two-leg execution and its monitor loops, thread by thread           *)
(*     (SpecEngine);                                                       *)
(*   - the ledger's read-modify-write statements executed by concurrent    *)
(*     threads, one attribute access per step (SpecRace);                  *)
(*   - AsyncArbitrageBot (async_bot_engine.py): the run() coroutine, cycle *)
(*     by cycle, with the scanner over the gathered order books and the    *)
(*     two gathered orders of _execute_arbitrage (SpecAsync), also on the  *)
(*     books of Scenario A (SpecScenario) and with balance checks of what  *)
(*     the scan found (SpecCooldown);                                      *)
(*   - ExchangeManager.get_balance (core/exchange_manager.py) with         *)
(*     RiskManager.check_balances and calculate_dynamic_trade_size         *)
(*     (SpecBalances);                                                     *)
(*   - Rebalancer.run_rebalancing_check (core/rebalancer.py), exchange by  *)
(*     exchange (SpecRebalance);                                           *)
(*   - the TradeExecutor of trade_executor.py (SpecExecutor);              *)
(*   - _execute_arbitrage with its two gathered coroutines, each issued    *)
(*     and completing on its own (SpecGather), and the run() loop under    *)
(*     any configured max_trades (SpecStopConditions);                     *)
(*   - TradeExecutor.set_runtime_params and the monitor loop of            *)
(*     _place_and_wait, poll by poll (SpecMonitor, and SpecMonitorFair for *)
(*     termination);                                                       *)
(*   - retry_ccxt_call (core/utils.py) around the rebalancer's orders,     *)
(*     invocation by invocation (SpecRetry).                               *)
(* Money is in whole USD, time in whole seconds unless a section says      *)
(* otherwise.                                                              *)
(***************************************************************************)
EXTENDS Integers, Sequences, FiniteSets, TLC

VARIABLES
    \* ---- RiskManager (risk_manager.py) ----
    capital_deployed_usd,        \* self.capital_deployed_usd
    total_portfolio_value_usd,   \* self.total_portfolio_value_usd
    last_portfolio_update_ts,    \* self.last_portfolio_update_ts
    balance_kill_switch_usd,     \* risk_config["balance_kill_switch_usd"]
    now,                         \* time.time()
    last_call,                   \* the last RiskManager call: method, argument, return value
    commits_checked,             \* every commit so far directly followed an approving check of its size
    pre_commit,                  \* capital_deployed_usd before the latest commit_capital
    roundtrip,                   \* the last two calls were commit_capital(x), release_capital(x)
    \* ---- concurrent ledger callers ----
    race_pc, race_op, race_reg, race_d0,
    \* ---- ArbitrageBot (bot_engine.py) ----
    running,                     \* self._running
    stop_evt,                    \* self._stop_evt
    state_lock_owner,            \* holder of self._state_lock (0: free)
    trade_lock_owner,            \* holder of self._trade_lock (0: free)
    trade_count, successful_trades, failed_trades,
    neutralized_trades, critical_failures, session_profit,
    pc,                          \* each thread's position
    gate_calls,                  \* RiskManager methods called for the picked opportunity
    emitted,                     \* how often each trade event was handed to _emit
    \* ---- TradeExecutor (core/trade_executor.py) ----
    busy,                        \* self._busy
    exec_stop_evt,               \* self._stop_evt
    opp,                         \* the opportunity each thread executes
    leg,                         \* the leg each thread is at (1: buy, 2: sell)
    status,                      \* _place_and_wait's local status
    leg_status,                  \* the status each finished leg returned
    result,                      \* execute_and_monitor_opportunity's returned status
    orders,                      \* orders the exchanges accepted for the current attempt
    fills,                       \* base amount each leg of the current attempt filled
    cancel_failed,               \* a cancel of the current attempt's order raised
    \* ---- AsyncArbitrageBot (async_bot_engine.py) ----
    is_running,                  \* self.is_running
    trades_executed,             \* self.trades_executed
    run_pc,                      \* position of the run() coroutine
    scan_i,                      \* index of the symbol _scan_for_opportunities is at
    order_books,                 \* order_books of the symbol being compared
    opportunities,               \* the list the scan builds and returns
    placed,                      \* orders _execute_arbitrage submitted in this cycle
    kill_checked,                \* check_kill_switch was evaluated in this cycle
    kill_switch_tripped,         \* check_kill_switch has returned True
    end_cause,                   \* why is_running was first set to False
    \* ---- ExchangeManager (core/exchange_manager.py) and balance checks ----
    cached_balances,             \* self.cached_balances
    last_balance_fetch_time,     \* self.last_balance_fetch_time
    bal_check,                   \* the last check_balances call: arguments, balances used, return value
    dyn_size,                    \* the last calculate_dynamic_trade_size call
    \* ---- Rebalancer (core/rebalancer.py) ----
    reb_pc,                      \* position of run_rebalancing_check
    reb_in,                      \* its configuration and portfolio argument
    reb_i,                       \* index of the exchange the sell loop is at
    amount_left,                 \* amount_left, in units of 0.00001 of the asset
    reb_decision,                \* whether a sale was decided, and total_amount_to_sell
    reb_events,                  \* what happened at each exchange visited
    reb_warned,                  \* the "partially done" warning was logged
    reb_result,                  \* how run_rebalancing_check ended for its caller
    \* ---- TradeExecutor (trade_executor.py) ----
    xt_call,                     \* the last call on the executor and what it gave
    xt_orders,                   \* the orders it has sent to exchanges
    \* ---- AsyncArbitrageBot._execute_arbitrage, step by step ----
    xa_pc,                       \* position of _execute_arbitrage
    xa_opp,                      \* its opportunity argument
    xa_legs,                     \* state of the two create_order coroutines
    xa_seen,                     \* buy_result and sell_result as the method read them
    xa_imbalance,                \* outcome of the TRADE IMBALANCE test
    \* ---- TradeExecutor._place_and_wait, poll by poll (times in 1/1280 s) ----
    default_monitor_timeout_s,   \* self.default_monitor_timeout_s
    min_poll_s,                  \* self.min_poll_s
    max_poll_s,                  \* self.max_poll_s
    pw_pc,                       \* position of _place_and_wait
    timeout_s,                   \* its local timeout_s
    has_fetch_order,             \* its local has_fetch_order
    pw_status,                   \* its local status
    last_status,                 \* its local last_status
    pw_elapsed,                  \* time slept since start
    next_sleep,                  \* its local next_sleep
    pw_slept,                    \* the interval of the latest time.sleep (0: none yet)
    pw_poll,                     \* the latest status poll and what it gave
    pw_exit,                     \* why the while loop ended
    pw_cancel,                   \* the cancel attempt after the loop
    \* ---- AsyncArbitrageBot's configuration ----
    max_trades,                  \* config['stop_conditions']['max_trades']
    \* ---- retry_ccxt_call (core/utils.py) around _place_rebalance_order ----
    rt_i,                        \* the wrapper's loop index i
    rt_delay,                    \* the wrapper's delay
    rt_calls,                    \* the invocations of the wrapped function so far
    rt_result,                   \* how the wrapper ended
    rt_order,                    \* sell_amount and the free balance it was cut to
    reb_submitted                \* amount of the orders that reached an exchange in this run

riskVars == <<capital_deployed_usd, total_portfolio_value_usd,
              last_portfolio_update_ts, balance_kill_switch_usd, now,
              last_call, commits_checked, pre_commit, roundtrip>>
raceVars == <<race_pc, race_op, race_reg, race_d0>>
botVars == <<running, stop_evt, state_lock_owner, trade_lock_owner, trade_count,
             successful_trades, failed_trades, neutralized_trades,
             critical_failures, session_profit, pc, gate_calls, emitted>>
execVars == <<busy, exec_stop_evt, opp, leg, status, leg_status, result, orders,
              fills, cancel_failed>>
asyncVars == <<is_running, trades_executed, run_pc, scan_i, order_books,
               opportunities, placed, kill_checked, kill_switch_tripped, end_cause>>
managerVars == <<cached_balances, last_balance_fetch_time, bal_check, dyn_size>>
rebalVars == <<reb_pc, reb_in, reb_i, amount_left, reb_decision, reb_events,
               reb_warned, reb_result>>
rootExecVars == <<xt_call, xt_orders>>
gatherVars == <<xa_pc, xa_opp, xa_legs, xa_seen, xa_imbalance>>
paramVars == <<default_monitor_timeout_s, min_poll_s, max_poll_s>>
loopVars == <<pw_pc, timeout_s, has_fetch_order, pw_status, last_status, pw_elapsed,
              next_sleep, pw_slept, pw_poll, pw_exit, pw_cancel>>
monitorVars == <<paramVars, loopVars>>
stopVars == <<max_trades>>
retryVars == <<rt_i, rt_delay, rt_calls, rt_result, rt_order, reb_submitted>>
lateVars == <<gatherVars, monitorVars, stopVars, retryVars>>
serviceVars == <<managerVars, rebalVars, rootExecVars, lateVars>>
engineVars == <<botVars, execVars, asyncVars, serviceVars>>
vars == <<riskVars, raceVars, engineVars>>

(***************************************************************************)
(* Bounds of the model and constants of the program.                       *)
(***************************************************************************)
MaxDeployedUsd == 200
MaxNow == 30
NumRaceThreads == 2
NumCallers == 2
NumSpawned == 1
MaxTrades == 2
NumExchanges == 3
NumSymbols == 1
MaxAsyncTrades == 2

MaxCapitalDeploymentPercentage == 25
PortfolioTtlS == 30
TradeSizeUsdt == 100
MinProfitUsd == 2

TradeSizes == {50, 100}
PortfolioTotals == {0, 400, 1000}
KillSwitchFloors == {-50, 0, 100}
SnapshotValues == {0, 50, 100, 150}
TickSteps == {15, 30}

(***************************************************************************)
(* RiskManager                                                             *)
(***************************************************************************)

\* What exchange_manager.get_total_balance_usdt() can do: return a total,
\* return None, or raise (it is missing on the top-level ExchangeManager).
HelperOutcomes ==
    {[kind |-> "value", v |-> p] : p \in PortfolioTotals}
        \cup {[kind |-> "none", v |-> 0], [kind |-> "raise", v |-> 0]}

\* _update_total_portfolio_value: the cached value and its timestamp after
\* the call, given the helper's outcome and the manual aggregate of the
\* clients' free USDT.
UpdateTotalPortfolioValue(total, ts, t, helper, manual) ==
    IF (t - ts) < PortfolioTtlS /\ total > 0
    THEN [total |-> total, ts |-> ts]
    ELSE IF helper.kind = "value"
    THEN [total |-> helper.v, ts |-> t]
    ELSE IF manual > 0
    THEN [total |-> manual, ts |-> t]
    ELSE [total |-> total, ts |-> ts]

CanDeployDecisionOffByOne(total, deployed, size) ==
    IF total <= 0 THEN TRUE
    ELSE (deployed + size) * 100 < total * MaxCapitalDeploymentPercentage

\* can_deploy_capital's return value once the portfolio value is refreshed:
\* potential > max_deployable, with max_deployable = total * (max_pct / 100).
CanDeployDecision(total, deployed, size) ==
    IF total <= 0 THEN TRUE
    ELSE IF (deployed + size) * 100 > total * MaxCapitalDeploymentPercentage
    THEN FALSE
    ELSE TRUE

CommitResult(deployed, size) == deployed + size

ReleaseResultNoSubtract(deployed, size) == deployed

\* release_capital: subtract, then clamp at zero.
ReleaseResult(deployed, size) ==
    IF deployed - size < 0 THEN 0 ELSE deployed - size

\* check_kill_switch(portfolio) for the configured floor; a snapshot without
\* the key total_usd_value reads as 0.0.
CheckKillSwitchResult(floor, portfolio) ==
    LET current_value == IF portfolio.has_total THEN portfolio.total ELSE 0
    IN  IF floor <= 0 THEN FALSE
        ELSE IF current_value <= 0 THEN FALSE
        ELSE current_value < floor

Call(op, size, ret, has) == [op |-> op, size |-> size, ret |-> ret, has_total |-> has]

InitRisk ==
    /\ capital_deployed_usd = 0
    /\ total_portfolio_value_usd = 0
    /\ last_portfolio_update_ts = 0
    /\ balance_kill_switch_usd \in KillSwitchFloors
    /\ now = 0
    /\ last_call = Call("none", 0, FALSE, TRUE)
    /\ commits_checked = TRUE
    /\ pre_commit = 0
    /\ roundtrip = FALSE

Tick ==
    /\ \E d \in TickSteps :
          /\ now + d <= MaxNow
          /\ now' = now + d
    /\ UNCHANGED <<capital_deployed_usd, total_portfolio_value_usd,
                   last_portfolio_update_ts, balance_kill_switch_usd,
                   last_call, commits_checked, pre_commit, roundtrip>>
    /\ UNCHANGED <<raceVars, engineVars>>

CanDeployCapital ==
    \E size \in TradeSizes, helper \in HelperOutcomes, manual \in PortfolioTotals :
        LET u == UpdateTotalPortfolioValue(total_portfolio_value_usd,
                                           last_portfolio_update_ts, now, helper, manual)
            ret == CanDeployDecision(u.total, capital_deployed_usd, size)
        IN  /\ total_portfolio_value_usd' = u.total
            /\ last_portfolio_update_ts' = u.ts
            /\ last_call' = Call("can_deploy_capital", size, ret, TRUE)
            /\ roundtrip' = FALSE
            /\ UNCHANGED <<capital_deployed_usd, balance_kill_switch_usd, now,
                           commits_checked, pre_commit>>
            /\ UNCHANGED <<raceVars, engineVars>>

CommitCapital ==
    \E size \in TradeSizes :
        /\ capital_deployed_usd + size <= MaxDeployedUsd
        /\ capital_deployed_usd' = CommitResult(capital_deployed_usd, size)
        /\ commits_checked' =
              (/\ commits_checked
               /\ last_call.op = "can_deploy_capital"
               /\ last_call.size = size
               /\ last_call.ret)
        /\ last_call' = Call("commit_capital", size, TRUE, TRUE)
        /\ pre_commit' = capital_deployed_usd
        /\ roundtrip' = FALSE
        /\ UNCHANGED <<total_portfolio_value_usd, last_portfolio_update_ts,
                       balance_kill_switch_usd, now>>
        /\ UNCHANGED <<raceVars, engineVars>>

ReleaseCapital ==
    \E size \in TradeSizes :
        /\ capital_deployed_usd' = ReleaseResult(capital_deployed_usd, size)
        /\ roundtrip' = (last_call.op = "commit_capital" /\ last_call.size = size)
        /\ last_call' = Call("release_capital", size, TRUE, TRUE)
        /\ UNCHANGED <<total_portfolio_value_usd, last_portfolio_update_ts,
                       balance_kill_switch_usd, now, commits_checked, pre_commit>>
        /\ UNCHANGED <<raceVars, engineVars>>

Snapshots ==
    {[has_total |-> TRUE, total |-> v] : v \in SnapshotValues}
        \cup {[has_total |-> FALSE, total |-> 0]}

CheckKillSwitch ==
    \E p \in Snapshots :
        /\ last_call' = Call("check_kill_switch", p.total,
                             CheckKillSwitchResult(balance_kill_switch_usd, p),
                             p.has_total)
        /\ roundtrip' = FALSE
        /\ UNCHANGED <<capital_deployed_usd, total_portfolio_value_usd,
                       last_portfolio_update_ts, balance_kill_switch_usd, now,
                       commits_checked, pre_commit>>
        /\ UNCHANGED <<raceVars, engineVars>>

(***************************************************************************)
(* Concurrent callers of the ledger                                        *)
(***************************************************************************)
RaceThreads == 1 .. NumRaceThreads

RaceOps ==
    {[op |-> o, size |-> x] : o \in {"commit_capital", "release_capital"}, x \in TradeSizes}
        \cup {[op |-> "can_deploy_capital", size |-> x] : x \in {100}}

\* The ledger after one whole call, as a serial execution leaves it.
ApplyOp(c, deployed) ==
    IF c.op = "commit_capital" THEN CommitResult(deployed, c.size)
    ELSE IF c.op = "release_capital" THEN ReleaseResult(deployed, c.size)
    ELSE deployed

RECURSIVE SerialResults(_, _)
SerialResults(S, deployed) ==
    IF S = {} THEN {deployed}
    ELSE UNION {SerialResults(S \ {t}, ApplyOp(race_op[t], deployed)) : t \in S}

InitRaceIdle ==
    /\ race_pc = [t \in RaceThreads |-> "done"]
    /\ race_op = [t \in RaceThreads |-> [op |-> "commit_capital", size |-> 0]]
    /\ race_reg = [t \in RaceThreads |-> 0]
    /\ race_d0 = 0

ledgerFrame == <<total_portfolio_value_usd, last_portfolio_update_ts,
                 balance_kill_switch_usd, now, last_call, commits_checked,
                 pre_commit, roundtrip, engineVars>>

\* The read of self.capital_deployed_usd that opens "+=", "-=" and the
\* comparison in can_deploy_capital.
RaceLoad ==
    \E t \in RaceThreads :
        /\ race_pc[t] = "start"
        /\ race_reg' = [race_reg EXCEPT ![t] = capital_deployed_usd]
        /\ race_pc' = [race_pc EXCEPT ![t] =
                          IF race_op[t].op = "can_deploy_capital" THEN "done" ELSE "loaded"]
        /\ UNCHANGED <<capital_deployed_usd, race_op, race_d0, ledgerFrame>>

\* The write that closes "+=" (commit_capital) or "-=" (release_capital).
RaceStore ==
    \E t \in RaceThreads :
        /\ race_pc[t] = "loaded"
        /\ capital_deployed_usd' =
              IF race_op[t].op = "commit_capital"
              THEN race_reg[t] + race_op[t].size
              ELSE race_reg[t] - race_op[t].size
        /\ race_pc' = [race_pc EXCEPT ![t] =
                          IF race_op[t].op = "commit_capital" THEN "done" ELSE "stored"]
        /\ UNCHANGED <<race_op, race_reg, race_d0, ledgerFrame>>

\* release_capital: if self.capital_deployed_usd < 0
RaceClampCheck ==
    \E t \in RaceThreads :
        /\ race_pc[t] = "stored"
        /\ race_pc' = [race_pc EXCEPT ![t] =
                          IF capital_deployed_usd < 0 THEN "clamp" ELSE "done"]
        /\ UNCHANGED <<capital_deployed_usd, race_op, race_reg, race_d0, ledgerFrame>>

\* release_capital: self.capital_deployed_usd = 0.0
RaceClampStore ==
    \E t \in RaceThreads :
        /\ race_pc[t] = "clamp"
        /\ capital_deployed_usd' = 0
        /\ race_pc' = [race_pc EXCEPT ![t] = "done"]
        /\ UNCHANGED <<race_op, race_reg, race_d0, ledgerFrame>>

NextRace ==
    \/ RaceLoad
    \/ RaceStore
    \/ RaceClampCheck
    \/ RaceClampStore

(***************************************************************************)
(* ArbitrageBot and TradeExecutor                                          *)
(***************************************************************************)
Callers == 1 .. NumCallers
Spawned == (NumCallers + 1) .. (NumCallers + NumSpawned)
Threads == Callers \cup Spawned

\* The public methods of RiskManager: hasattr(self.risk_manager, name).
RiskManagerMethods ==
    {"can_deploy_capital", "commit_capital", "release_capital",
     "calculate_dynamic_trade_size", "check_balances", "check_kill_switch"}

HasAttr(methods, name) == name \in methods

\* _try_execute_first_safe's risk step: the methods it calls on the risk
\* manager (approve, else check, when the object has them).
RiskMethodsCalled ==
    IF HasAttr(RiskManagerMethods, "approve") THEN {"approve"}
    ELSE IF HasAttr(RiskManagerMethods, "check") THEN {"check"}
    ELSE {}

Opportunities ==
    {[amount |-> 2, dry_run |-> d, profit |-> 3] : d \in BOOLEAN}

NoOpp == [amount |-> 0, dry_run |-> FALSE, profit |-> 0]

\* _build_legs: leg 1 buys on the buy exchange, leg 2 sells on the sell exchange.
BuildLeg(o, n) ==
    IF n = 1 THEN [side |-> "buy", exchange |-> "buy_exchange", amount |-> o.amount]
    ELSE [side |-> "sell", exchange |-> "sell_exchange", amount |-> o.amount]

FilledStatuses == {"closed", "filled"}
TerminalStatuses == {"closed", "filled", "canceled", "rejected"}

\* Amounts an order can have filled when the exchange reports it closed.
FillAmounts(amount) == {amount - 1, amount}

TradeLockAcquireNoLock(owner, t) == owner

\* with self._trade_lock: the lock's holder once thread t is inside.
TradeLockAcquire(owner, t) == t

InFlightPcs ==
    {"place", "monitor", "after_monitor", "leg_return", "after_leg1", "exec_return"}

InFlight == {t \in Threads : pc[t] \in InFlightPcs}

InitEngine ==
    /\ running = FALSE
    /\ stop_evt = FALSE
    /\ state_lock_owner = 0
    /\ trade_lock_owner = 0
    /\ trade_count = 0
    /\ successful_trades = 0
    /\ failed_trades = 0
    /\ neutralized_trades = 0
    /\ critical_failures = 0
    /\ session_profit = 0
    /\ pc = [t \in Threads |-> IF t \in Callers THEN "idle" ELSE "unborn"]
    /\ gate_calls = {}
    /\ emitted = [on_trade_started |-> 0, on_trade_finished |-> 0]
    /\ busy = FALSE
    /\ exec_stop_evt = FALSE
    /\ opp = [t \in Threads |-> NoOpp]
    /\ leg = [t \in Threads |-> 1]
    /\ status = [t \in Threads |-> "unknown"]
    /\ leg_status = [t \in Threads |-> <<"none", "none">>]
    /\ result = [t \in Threads |-> "none"]
    /\ orders = <<>>
    /\ fills = <<0, 0>>
    /\ cancel_failed = FALSE

statVars == <<trade_count, successful_trades, failed_trades, neutralized_trades,
              critical_failures, session_profit, emitted>>
localVars == <<opp, leg, status, leg_status, result>>
otherVars == <<riskVars, raceVars, asyncVars, serviceVars>>

\* run(): the guarded block under the state lock; the caller's thread then
\* runs the loop itself.
RunCall ==
    \E t \in Callers :
        /\ pc[t] = "idle"
        /\ state_lock_owner = 0
        /\ ~running
        /\ stop_evt' = FALSE
        /\ running' = TRUE
        /\ pc' = [pc EXCEPT ![t] = "loop_top"]
        /\ UNCHANGED <<state_lock_owner, trade_lock_owner, statVars, gate_calls,
                       execVars, otherVars>>

\* run() or start() on a running engine: logged and ignored.
RunOrStartIgnored ==
    \E t \in Callers :
        /\ pc[t] = "idle"
        /\ state_lock_owner = 0
        /\ running
        /\ UNCHANGED vars

\* start(): the same block, and the loop runs on a new thread.
StartCall ==
    \E t \in Callers, n \in Spawned :
        /\ pc[t] = "idle"
        /\ state_lock_owner = 0
        /\ ~running
        /\ pc[n] = "unborn"
        /\ stop_evt' = FALSE
        /\ running' = TRUE
        /\ pc' = [pc EXCEPT ![n] = "loop_top"]
        /\ UNCHANGED <<state_lock_owner, trade_lock_owner, statVars, gate_calls,
                       execVars, otherVars>>

\* stop(): under the state lock, return if not running, else set the stop event.
StopCall ==
    \E t \in Callers :
        /\ pc[t] = "idle"
        /\ state_lock_owner = 0
        /\ running
        /\ stop_evt' = TRUE
        /\ state_lock_owner' = t
        /\ pc' = [pc EXCEPT ![t] = "stop_request"]
        /\ UNCHANGED <<running, trade_lock_owner, statVars, gate_calls,
                       execVars, otherVars>>

\* stop(): trade_executor.request_stop(), still under the state lock; the
\* join that follows waits at most join_timeout.
StopRequestExecutor ==
    \E t \in Callers :
        /\ pc[t] = "stop_request"
        /\ exec_stop_evt' = TRUE
        /\ state_lock_owner' = 0
        /\ pc' = [pc EXCEPT ![t] = "idle"]
        /\ UNCHANGED <<running, stop_evt, trade_lock_owner, statVars, gate_calls,
                       busy, localVars, orders, fills, cancel_failed, otherVars>>

\* _run_loop: while not self._stop_evt.is_set()
LoopTop ==
    \E t \in Threads :
        /\ pc[t] = "loop_top"
        /\ pc' = [pc EXCEPT ![t] = IF stop_evt THEN "loop_exit" ELSE "cycle"]
        /\ UNCHANGED <<running, stop_evt, state_lock_owner, trade_lock_owner,
                       statVars, gate_calls, execVars, otherVars>>

\* One cycle up to _try_execute_first_safe: snapshot, _find_opportunities,
\* _pick_best. No opportunity (or an error in the cycle) goes back to sleep.
CycleNoOpportunity ==
    \E t \in Threads :
        /\ pc[t] = "cycle"
        /\ pc' = [pc EXCEPT ![t] = "loop_top"]
        /\ UNCHANGED <<running, stop_evt, state_lock_owner, trade_lock_owner,
                       statVars, gate_calls, execVars, otherVars>>

CycleOpportunity ==
    \E t \in Threads, o \in Opportunities :
        /\ pc[t] = "cycle"
        /\ trade_count + critical_failures < MaxTrades
        /\ opp' = [opp EXCEPT ![t] = o]
        /\ pc' = [pc EXCEPT ![t] = "is_trade_in_progress"]
        /\ UNCHANGED <<running, stop_evt, state_lock_owner, trade_lock_owner,
                       statVars, gate_calls, busy, exec_stop_evt, leg, status,
                       leg_status, result, orders, fills, cancel_failed, otherVars>>

\* _is_trade_in_progress: the executor has is_busy, so its value decides.
IsTradeInProgress ==
    \E t \in Threads :
        /\ pc[t] = "is_trade_in_progress"
        /\ pc' = [pc EXCEPT ![t] = IF busy THEN "loop_top" ELSE "risk_gate"]
        /\ opp' = [opp EXCEPT ![t] = IF busy THEN NoOpp ELSE opp[t]]
        /\ UNCHANGED <<running, stop_evt, state_lock_owner, trade_lock_owner,
                       statVars, gate_calls, busy, exec_stop_evt, leg, status,
                       leg_status, result, orders, fills, cancel_failed, otherVars>>

\* The risk step: approved stays True unless approve/check exists and refuses.
RiskGate ==
    \E t \in Threads :
        /\ pc[t] = "risk_gate"
        /\ gate_calls' = RiskMethodsCalled
        /\ pc' = [pc EXCEPT ![t] = "acquire_trade_lock"]
        /\ UNCHANGED <<running, stop_evt, state_lock_owner, trade_lock_owner,
                       statVars, execVars, otherVars>>

AcquireTradeLock ==
    \E t \in Threads :
        /\ pc[t] = "acquire_trade_lock"
        /\ trade_lock_owner \in {0, t}
        /\ trade_lock_owner' = TradeLockAcquire(trade_lock_owner, t)
        /\ pc' = [pc EXCEPT ![t] = "engine_set_busy"]
        /\ UNCHANGED <<running, stop_evt, state_lock_owner, statVars, gate_calls,
                       execVars, otherVars>>

\* A flag that, once set, is never cleared.
SetBusySticky(flag, value) == flag \/ value

\* TradeExecutor.set_busy(value): self._busy = bool(value)
SetBusy(flag, value) == value

\* _emit without its try: the callback's exception goes to the caller.
EmitUnguarded(cb_raises) == IF cb_raises THEN "raises" ELSE "returns"

\* _emit(name, ...): the callback is called and what it raises is logged.
Emit(cb_raises) == "returns"

Emitted(name) == [emitted EXCEPT ![name] = emitted[name] + 1]

\* The statistics counter an execution's result goes to, one that leaves
\* out the results that are neither filled nor neutralized.
OutcomeCounterFilledOrNeutralized(res) ==
    IF res = "filled" THEN "successful_trades"
    ELSE IF res = "neutralized" THEN "neutralized_trades"
    ELSE "none"

\* bot_engine.py:297-303: the statistics counter an execution's result goes to.
OutcomeCounter(res) ==
    IF res = "filled" THEN "successful_trades"
    ELSE IF res = "neutralized" THEN "neutralized_trades"
    ELSE "failed_trades"

\* bot_engine.py:272-281: on_trade_started is emitted, the status is
\* emitted, and trade_executor.set_busy(True).  An exception leaving line 272
\* would leave the with block and reach _run_loop.
EngineSetBusy ==
    \E t \in Threads, cb_raises \in BOOLEAN :
        /\ pc[t] = "engine_set_busy"
        /\ emitted' = Emitted("on_trade_started")
        /\ IF Emit(cb_raises) = "returns"
           THEN /\ busy' = SetBusy(busy, TRUE)
                /\ pc' = [pc EXCEPT ![t] = "exec_begin"]
                /\ UNCHANGED <<trade_lock_owner, opp, gate_calls>>
           ELSE /\ trade_lock_owner' = IF trade_lock_owner = t THEN 0 ELSE trade_lock_owner
                /\ opp' = [opp EXCEPT ![t] = NoOpp]
                /\ gate_calls' = {}
                /\ pc' = [pc EXCEPT ![t] = "loop_top"]
                /\ UNCHANGED busy
        /\ UNCHANGED <<running, stop_evt, state_lock_owner, trade_count,
                       successful_trades, failed_trades, neutralized_trades,
                       critical_failures, session_profit, exec_stop_evt, leg,
                       status, leg_status, result, orders, fills, cancel_failed,
                       otherVars>>

\* bot_engine.py:283-288 and 305-314: the call of the executor raises (it has
\* no execute_* method, or the method lets an exception out); the except
\* clause counts a critical failure and emits on_trade_finished.
EngineExcept ==
    \E t \in Threads, cb_raises \in BOOLEAN :
        /\ pc[t] = "exec_begin"
        /\ critical_failures' = critical_failures + 1
        /\ emitted' = Emitted("on_trade_finished")
        /\ pc' = [pc EXCEPT ![t] = "engine_finally"]
        /\ UNCHANGED <<running, stop_evt, state_lock_owner, trade_lock_owner,
                       trade_count, successful_trades, failed_trades,
                       neutralized_trades, session_profit, gate_calls, execVars,
                       otherVars>>

\* execute_and_monitor_opportunity: reset_stop(), set_busy(True), _build_legs.
ExecBegin ==
    \E t \in Threads :
        /\ pc[t] = "exec_begin"
        /\ exec_stop_evt' = FALSE
        /\ busy' = SetBusy(busy, TRUE)
        /\ leg' = [leg EXCEPT ![t] = 1]
        /\ status' = [status EXCEPT ![t] = "unknown"]
        /\ leg_status' = [leg_status EXCEPT ![t] = <<"none", "none">>]
        /\ result' = [result EXCEPT ![t] = "none"]
        /\ orders' = <<>>
        /\ fills' = <<0, 0>>
        /\ cancel_failed' = FALSE
        /\ pc' = [pc EXCEPT ![t] = "place"]
        /\ UNCHANGED <<running, stop_evt, state_lock_owner, trade_lock_owner,
                       statVars, gate_calls, opp, otherVars>>

engineFrame == <<running, stop_evt, state_lock_owner, trade_lock_owner, statVars,
                 gate_calls, busy, exec_stop_evt, opp, otherVars>>

\* _place_and_wait, dry run: the leg is reported filled at once, no order placed.
PlaceDryRun ==
    \E t \in Threads :
        /\ pc[t] = "place"
        /\ opp[t].dry_run
        /\ status' = [status EXCEPT ![t] = "filled"]
        /\ pc' = [pc EXCEPT ![t] = "leg_return"]
        /\ UNCHANGED <<engineFrame, leg, leg_status, result, orders, fills, cancel_failed>>

\* _client or client.create_order raises: execute_and_monitor_opportunity's
\* except clause returns {"status": "failed"}.
PlaceOrderRaises ==
    \E t \in Threads :
        /\ pc[t] = "place"
        /\ ~opp[t].dry_run
        /\ leg_status' = [leg_status EXCEPT ![t][leg[t]] = "error"]
        /\ result' = [result EXCEPT ![t] = "failed"]
        /\ pc' = [pc EXCEPT ![t] = "exec_return"]
        /\ UNCHANGED <<engineFrame, leg, status, orders, fills, cancel_failed>>

\* client.create_order returns an order.
PlaceOrderAccepted ==
    \E t \in Threads :
        /\ pc[t] = "place"
        /\ ~opp[t].dry_run
        /\ orders' = Append(orders, BuildLeg(opp[t], leg[t]))
        /\ status' = [status EXCEPT ![t] = "unknown"]
        /\ pc' = [pc EXCEPT ![t] = "monitor"]
        /\ UNCHANGED <<engineFrame, leg, leg_status, result, fills, cancel_failed>>

\* while not self.is_stopping(): the stop event ends the loop.
MonitorStopRequested ==
    \E t \in Threads :
        /\ pc[t] = "monitor"
        /\ exec_stop_evt
        /\ pc' = [pc EXCEPT ![t] = "after_monitor"]
        /\ UNCHANGED <<engineFrame, leg, status, leg_status, result, orders, fills, cancel_failed>>

\* elapsed >= timeout_s
MonitorTimeout ==
    \E t \in Threads :
        /\ pc[t] = "monitor"
        /\ ~exec_stop_evt
        /\ status' = [status EXCEPT ![t] = "timeout"]
        /\ pc' = [pc EXCEPT ![t] = "after_monitor"]
        /\ UNCHANGED <<engineFrame, leg, leg_status, result, orders, fills, cancel_failed>>

\* fetch_order (or the open-orders fallback) reports a status; a terminal
\* one ends the loop, any other sleeps and polls again.
MonitorPoll ==
    \E t \in Threads, st \in TerminalStatuses \cup {"open"} :
        \E f \in IF st \in FilledStatuses THEN FillAmounts(opp[t].amount) ELSE {0} :
            /\ pc[t] = "monitor"
            /\ ~exec_stop_evt
            /\ status' = [status EXCEPT ![t] = st]
            /\ fills' = [fills EXCEPT ![leg[t]] = f]
            /\ pc' = [pc EXCEPT ![t] =
                         IF st \in TerminalStatuses THEN "after_monitor" ELSE "monitor"]
            /\ UNCHANGED <<engineFrame, leg, leg_status, result, orders, cancel_failed>>

\* fetch_order raises: status = last_status or "open", and the loop goes on.
MonitorPollError ==
    \E t \in Threads :
        /\ pc[t] = "monitor"
        /\ ~exec_stop_evt
        /\ status' = [status EXCEPT ![t] = IF status[t] = "unknown" THEN "open" ELSE status[t]]
        /\ UNCHANGED <<engineFrame, pc, leg, leg_status, result, orders, fills, cancel_failed>>

\* After the loop: on a stop request an order not yet filled is cancelled.
AfterMonitorCancelled ==
    \E t \in Threads :
        /\ pc[t] = "after_monitor"
        /\ exec_stop_evt /\ status[t] \notin FilledStatuses
        /\ status' = [status EXCEPT ![t] = "canceled"]
        /\ pc' = [pc EXCEPT ![t] = "leg_return"]
        /\ UNCHANGED <<engineFrame, leg, leg_status, result, orders, fills, cancel_failed>>

\* The cancel raises: it is logged and the status stays what it was.
AfterMonitorCancelFails ==
    \E t \in Threads :
        /\ pc[t] = "after_monitor"
        /\ exec_stop_evt /\ status[t] \notin FilledStatuses
        /\ cancel_failed' = TRUE
        /\ pc' = [pc EXCEPT ![t] = "leg_return"]
        /\ UNCHANGED <<engineFrame, leg, status, leg_status, result, orders, fills>>

AfterMonitorNoCancel ==
    \E t \in Threads :
        /\ pc[t] = "after_monitor"
        /\ ~(exec_stop_evt /\ status[t] \notin FilledStatuses)
        /\ pc' = [pc EXCEPT ![t] = "leg_return"]
        /\ UNCHANGED <<engineFrame, leg, status, leg_status, result, orders, fills, cancel_failed>>

\* _place_and_wait returns the leg's status; after leg 2 the attempt
\* returns {"status": "filled"}.
LegReturn ==
    \E t \in Threads :
        /\ pc[t] = "leg_return"
        /\ leg_status' = [leg_status EXCEPT ![t][leg[t]] = status[t]]
        /\ result' = [result EXCEPT ![t] = IF leg[t] = 2 THEN "filled" ELSE result[t]]
        /\ pc' = [pc EXCEPT ![t] = IF leg[t] = 2 THEN "exec_return" ELSE "after_leg1"]
        /\ UNCHANGED <<engineFrame, leg, status, orders, fills, cancel_failed>>

\* if self.is_stopping(): return {"status": "stopped"}; else leg 2.
AfterLeg1 ==
    \E t \in Threads :
        /\ pc[t] = "after_leg1"
        /\ IF exec_stop_evt
           THEN /\ result' = [result EXCEPT ![t] = "stopped"]
                /\ pc' = [pc EXCEPT ![t] = "exec_return"]
                /\ UNCHANGED <<leg, status>>
           ELSE /\ leg' = [leg EXCEPT ![t] = 2]
                /\ status' = [status EXCEPT ![t] = "unknown"]
                /\ pc' = [pc EXCEPT ![t] = "place"]
                /\ UNCHANGED result
        /\ UNCHANGED <<engineFrame, leg_status, orders, fills, cancel_failed>>

\* finally: self.set_busy(False)
ExecReturn ==
    \E t \in Threads :
        /\ pc[t] = "exec_return"
        /\ busy' = SetBusy(busy, FALSE)
        /\ pc' = [pc EXCEPT ![t] = "engine_stats"]
        /\ UNCHANGED <<running, stop_evt, state_lock_owner, trade_lock_owner,
                       statVars, gate_calls, exec_stop_evt, localVars, orders,
                       fills, cancel_failed, otherVars>>

\* bot_engine.py:290-303: on_trade_finished is emitted with the result, then
\* the session statistics.  An exception leaving line 292 would be handled by
\* the except clause, which emits on_trade_finished again.
EngineStats ==
    \E t \in Threads, cb_raises \in BOOLEAN :
        LET counter == OutcomeCounter(result[t])
            Plus(name) == IF counter = name THEN 1 ELSE 0
        IN  /\ pc[t] = "engine_stats"
            /\ pc' = [pc EXCEPT ![t] = "engine_finally"]
            /\ IF Emit(cb_raises) = "returns"
               THEN /\ emitted' = Emitted("on_trade_finished")
                    /\ trade_count' = trade_count + 1
                    /\ successful_trades' = successful_trades + Plus("successful_trades")
                    /\ session_profit' = session_profit
                           + (IF result[t] = "filled" THEN opp[t].profit ELSE 0)
                    /\ neutralized_trades' = neutralized_trades + Plus("neutralized_trades")
                    /\ failed_trades' = failed_trades + Plus("failed_trades")
                    /\ UNCHANGED critical_failures
               ELSE /\ emitted' = [emitted EXCEPT !["on_trade_finished"] = @ + 2]
                    /\ critical_failures' = critical_failures + 1
                    /\ UNCHANGED <<trade_count, successful_trades, session_profit,
                                   neutralized_trades, failed_trades>>
            /\ UNCHANGED <<running, stop_evt, state_lock_owner, trade_lock_owner,
                           gate_calls, execVars, otherVars>>

\* finally: trade_executor.set_busy(False), and the trade lock is released;
\* _try_execute_first_safe returns and its locals are gone.
EngineFinally ==
    \E t \in Threads :
        /\ pc[t] = "engine_finally"
        /\ busy' = SetBusy(busy, FALSE)
        /\ trade_lock_owner' = IF trade_lock_owner = t THEN 0 ELSE trade_lock_owner
        /\ opp' = [opp EXCEPT ![t] = NoOpp]
        /\ leg' = [leg EXCEPT ![t] = 1]
        /\ status' = [status EXCEPT ![t] = "unknown"]
        /\ leg_status' = [leg_status EXCEPT ![t] = <<"none", "none">>]
        /\ result' = [result EXCEPT ![t] = "none"]
        /\ orders' = <<>>
        /\ fills' = <<0, 0>>
        /\ cancel_failed' = FALSE
        /\ gate_calls' = {}
        /\ pc' = [pc EXCEPT ![t] = "loop_top"]
        /\ UNCHANGED <<running, stop_evt, state_lock_owner, statVars,
                       exec_stop_evt, otherVars>>

\* The loop has ended: run() clears _running under the state lock; a
\* thread made by start() just ends.
LoopExit ==
    \E t \in Threads :
        /\ pc[t] = "loop_exit"
        /\ IF t \in Callers
           THEN /\ state_lock_owner = 0
                /\ running' = FALSE
                /\ pc' = [pc EXCEPT ![t] = "idle"]
           ELSE /\ pc' = [pc EXCEPT ![t] = "dead"]
                /\ UNCHANGED running
        /\ UNCHANGED <<stop_evt, state_lock_owner, trade_lock_owner, statVars,
                       gate_calls, execVars, otherVars>>

NextEngine ==
    \/ RunCall
    \/ RunOrStartIgnored
    \/ StartCall
    \/ StopCall
    \/ StopRequestExecutor
    \/ LoopTop
    \/ CycleNoOpportunity
    \/ CycleOpportunity
    \/ IsTradeInProgress
    \/ RiskGate
    \/ AcquireTradeLock
    \/ EngineSetBusy
    \/ ExecBegin
    \/ EngineExcept
    \/ PlaceDryRun
    \/ PlaceOrderRaises
    \/ PlaceOrderAccepted
    \/ MonitorStopRequested
    \/ MonitorTimeout
    \/ MonitorPoll
    \/ MonitorPollError
    \/ AfterMonitorCancelled
    \/ AfterMonitorCancelFails
    \/ AfterMonitorNoCancel
    \/ LegReturn
    \/ AfterLeg1
    \/ ExecReturn
    \/ EngineStats
    \/ EngineFinally
    \/ LoopExit

(***************************************************************************)
(* AsyncArbitrageBot: the run() coroutine and the scanner                  *)
(***************************************************************************)
Exchanges == 1 .. NumExchanges
Symbols == 1 .. NumSymbols

\* Best prices used for the books (the scanner reads asks[0][0], bids[0][0]).
AskPrices == {0, 100}
BidPrices == {102, 105, 110}

\* A book side: empty, or a list whose first level has the given price.
Sides(prices) == {<<>>} \cup {<<p>> : p \in prices}

\* get_order_book returns None when fetch_order_book raises.
NoBook == [fetched |-> FALSE, asks |-> <<>>, bids |-> <<>>]

Books ==
    {NoBook} \cup {[fetched |-> TRUE, asks |-> a, bids |-> b] :
                       a \in Sides(AskPrices), b \in Sides(BidPrices)}

NoBooks == [e \in Exchanges |-> NoBook]

\* a / b for the values used here (b divides a), with Python's sign rule.
Quot(a, b) ==
    IF b > 0 THEN (IF a >= 0 THEN a \div b ELSE -((-a) \div b))
    ELSE (IF a >= 0 THEN -(a \div (-b)) ELSE (-a) \div (-b))

\* amount_to_buy = trade_size_usdt / buy_price;
\* gross_profit_usd = (sell_price - buy_price) * amount_to_buy
GrossProfitUsd(buy_price, sell_price) ==
    Quot((sell_price - buy_price) * TradeSizeUsdt, buy_price)

ProfitExceedsOrEqual(buy_price, sell_price) ==
    IF buy_price > 0
    THEN (sell_price - buy_price) * TradeSizeUsdt >= MinProfitUsd * buy_price
    ELSE (sell_price - buy_price) * TradeSizeUsdt <= MinProfitUsd * buy_price

\* gross_profit_usd > self.min_profit_usd, without rounding (buy_price # 0).
ProfitExceeds(buy_price, sell_price) ==
    IF buy_price > 0
    THEN (sell_price - buy_price) * TradeSizeUsdt > MinProfitUsd * buy_price
    ELSE (sell_price - buy_price) * TradeSizeUsdt < MinProfitUsd * buy_price

TradeAmountQuote(buy_price) == TradeSizeUsdt

\* _execute_arbitrage: trade_amount_base = self.trade_size_usdt / buy_price
TradeAmountBase(buy_price) == Quot(TradeSizeUsdt, buy_price)

ScanOk(opps) == [raised |-> FALSE, opps |-> opps]
ScanRaised == [raised |-> TRUE, opps |-> <<>>]

\* One direction of a pair: buy at b's best ask, sell at s's best bid.
\* The division by a zero buy_price raises ZeroDivisionError.
Direction(books, symbol, b, s) ==
    LET buy_price == books[b].asks[1]
        sell_price == books[s].bids[1]
    IN  IF sell_price > buy_price
        THEN IF buy_price = 0 THEN ScanRaised
             ELSE IF ProfitExceeds(buy_price, sell_price)
                  THEN ScanOk(<<[symbol |-> symbol,
                                 profit_usd |-> GrossProfitUsd(buy_price, sell_price),
                                 buy_exchange |-> b, buy_price |-> buy_price,
                                 sell_exchange |-> s, sell_price |-> sell_price]>>)
                  ELSE ScanOk(<<>>)
        ELSE ScanOk(<<>>)

\* The body of the pair loop for ex1 = i, ex2 = j, with its two "continue"s.
PairResult(books, symbol, i, j) ==
    LET book1 == books[i]
        book2 == books[j]
    IN  IF \/ ~book1.fetched \/ ~book2.fetched
           \/ book1.asks = <<>> \/ book2.bids = <<>>
        THEN ScanOk(<<>>)
        ELSE LET d1 == Direction(books, symbol, i, j)
             IN  IF d1.raised THEN ScanRaised
                 ELSE IF book2.asks = <<>> \/ book1.bids = <<>>
                      THEN d1
                      ELSE LET d2 == Direction(books, symbol, j, i)
                           IN  IF d2.raised THEN ScanRaised
                               ELSE ScanOk(d1.opps \o d2.opps)

\* for i in range(len(ex_ids)): for j in range(i + 1, len(ex_ids))
RECURSIVE PairsFrom(_, _)
PairsFrom(i, j) ==
    IF i > NumExchanges THEN <<>>
    ELSE IF j > NumExchanges THEN PairsFrom(i + 1, i + 2)
    ELSE <<<<i, j>>>> \o PairsFrom(i, j + 1)

RECURSIVE ComparePairs(_, _, _)
ComparePairs(books, symbol, pairs) ==
    IF pairs = <<>> THEN ScanOk(<<>>)
    ELSE LET first == PairResult(books, symbol, pairs[1][1], pairs[1][2])
         IN  IF first.raised THEN ScanRaised
             ELSE LET rest == ComparePairs(books, symbol, Tail(pairs))
                  IN  IF rest.raised THEN ScanRaised
                      ELSE ScanOk(first.opps \o rest.opps)

\* Insert o behind every element whose profit is at least o's.
InsertByProfit(sorted, o) ==
    LET k == Cardinality({n \in 1 .. Len(sorted) :
                             sorted[n].profit_usd >= o.profit_usd})
    IN  SubSeq(sorted, 1, k) \o <<o>> \o SubSeq(sorted, k + 1, Len(sorted))

RECURSIVE SortByProfitDesc(_)
SortByProfitDesc(opps) ==
    IF opps = <<>> THEN <<>>
    ELSE InsertByProfit(SortByProfitDesc(SubSeq(opps, 1, Len(opps) - 1)),
                        opps[Len(opps)])

ReturnedUnsorted(opps) == opps

\* sorted(opportunities, key=lambda x: x['profit_usd'], reverse=True)
Returned(opps) == SortByProfitDesc(opps)

KillSwitchIgnored(tripped) == "scan_fetch"

\* if self.risk_manager.check_kill_switch(portfolio): ... continue
AfterKillSwitch(tripped) == IF tripped THEN "loop_top" ELSE "scan_fetch"

\* The first reason is_running was set to False.
EndCause(cause) == IF end_cause = "none" THEN cause ELSE end_cause

InitAsyncIdle ==
    /\ is_running = FALSE
    /\ trades_executed = 0
    /\ run_pc = "not_started"
    /\ scan_i = 1
    /\ order_books = NoBooks
    /\ opportunities = <<>>
    /\ placed = <<>>
    /\ kill_checked = FALSE
    /\ kill_switch_tripped = FALSE
    /\ end_cause = "none"

asyncFrame == <<riskVars, raceVars, botVars, execVars, serviceVars>>

\* run(): self.is_running = True
AsyncRun ==
    /\ run_pc = "not_started"
    /\ is_running' = TRUE
    /\ run_pc' = "loop_top"
    /\ UNCHANGED <<trades_executed, scan_i, order_books, opportunities, placed,
                   kill_checked, kill_switch_tripped, end_cause, asyncFrame>>

\* The GUI's stop_bot: bot_instance.is_running = False, from another thread.
AsyncStopRequest ==
    /\ is_running
    /\ is_running' = FALSE
    /\ end_cause' = EndCause("stop_request")
    /\ UNCHANGED <<trades_executed, run_pc, scan_i, order_books, opportunities,
                   placed, kill_checked, kill_switch_tripped, asyncFrame>>

\* while self.is_running
AsyncLoopTop ==
    /\ run_pc = "loop_top"
    /\ run_pc' = IF is_running THEN "stop_conditions" ELSE "finished"
    /\ scan_i' = 1
    /\ order_books' = NoBooks
    /\ opportunities' = <<>>
    /\ placed' = <<>>
    /\ kill_checked' = FALSE
    /\ UNCHANGED <<is_running, trades_executed, kill_switch_tripped, end_cause,
                   asyncFrame>>

\* stop_conditions without max_trades.
NoMaxTrades == 0 - 1

\* A max_trades test that lets one more trade through.
StopConditionsMetLate(limit, executed, elapsed) ==
    (limit # NoMaxTrades /\ executed > limit) \/ elapsed

\* _check_stop_conditions: max_trades is not None and trades_executed >=
\* max_trades, or run_duration_s is not None and it has elapsed.
StopConditionsMet(limit, executed, elapsed) ==
    (limit # NoMaxTrades /\ executed >= limit) \/ elapsed

\* if self._check_stop_conditions(): self.is_running = False; continue
AsyncCheckStopConditions ==
    \E elapsed \in BOOLEAN :
        /\ run_pc = "stop_conditions"
        /\ IF StopConditionsMet(max_trades, trades_executed, elapsed)
           THEN /\ is_running' = FALSE
                /\ end_cause' = EndCause("stop_condition")
                /\ run_pc' = "loop_top"
           ELSE /\ run_pc' = "portfolio"
                /\ UNCHANGED <<is_running, end_cause>>
        /\ UNCHANGED <<trades_executed, scan_i, order_books, opportunities, placed,
                       kill_checked, kill_switch_tripped, asyncFrame>>

\* get_portfolio_snapshot returns; check_kill_switch(portfolio) decides.
AsyncPortfolio ==
    \E v \in SnapshotValues :
        LET tripped == CheckKillSwitchResult(balance_kill_switch_usd,
                                             [has_total |-> TRUE, total |-> v])
        IN  /\ run_pc = "portfolio"
            /\ kill_checked' = TRUE
            /\ kill_switch_tripped' = tripped
            /\ is_running' = IF tripped THEN FALSE ELSE is_running
            /\ end_cause' = IF tripped THEN EndCause("kill_switch") ELSE end_cause
            /\ run_pc' = AfterKillSwitch(tripped)
            /\ UNCHANGED <<trades_executed, scan_i, order_books, opportunities,
                           placed, asyncFrame>>

\* get_portfolio_snapshot raises (a balance total of None, a ticker call
\* outside the gathered ones): except Exception sets is_running = False.
AsyncPortfolioRaises ==
    /\ run_pc = "portfolio"
    /\ is_running' = FALSE
    /\ end_cause' = EndCause("error")
    /\ run_pc' = "loop_top"
    /\ UNCHANGED <<trades_executed, scan_i, order_books, opportunities, placed,
                   kill_checked, kill_switch_tripped, asyncFrame>>

\* _scan_for_opportunities: the books of the next symbol are gathered; a
\* failed fetch gives None for that exchange.
ScanFetch ==
    \E books \in [Exchanges -> Books] :
        /\ run_pc = "scan_fetch"
        /\ order_books' = books
        /\ run_pc' = "scan_compare"
        /\ UNCHANGED <<is_running, trades_executed, scan_i, opportunities, placed,
                       kill_checked, kill_switch_tripped, end_cause, asyncFrame>>

\* The pair loop over the gathered books; an exception leaves the scan and
\* is caught by run(): is_running = False.
ScanCompare ==
    LET r == ComparePairs(order_books, scan_i, PairsFrom(1, 2))
    IN  /\ run_pc = "scan_compare"
        /\ IF r.raised
           THEN /\ is_running' = FALSE
                /\ end_cause' = EndCause("error")
                /\ run_pc' = "scan_raised"
                /\ UNCHANGED <<scan_i, opportunities>>
           ELSE /\ opportunities' = opportunities \o r.opps
                /\ scan_i' = IF scan_i < NumSymbols THEN scan_i + 1 ELSE scan_i
                /\ run_pc' = IF scan_i < NumSymbols THEN "scan_fetch" ELSE "scan_return"
                /\ UNCHANGED <<is_running, end_cause>>
        /\ UNCHANGED <<trades_executed, order_books, placed, kill_checked,
                       kill_switch_tripped, asyncFrame>>

\* The except clause of run() has run; back to the while test.
ScanRaisedHandled ==
    /\ run_pc = "scan_raised"
    /\ run_pc' = "loop_top"
    /\ UNCHANGED <<is_running, trades_executed, scan_i, order_books, opportunities,
                   placed, kill_checked, kill_switch_tripped, end_cause, asyncFrame>>

\* The scan returns the sorted list; run() takes opportunities[0] if any.
ScanReturn ==
    /\ run_pc = "scan_return"
    /\ opportunities' = Returned(opportunities)
    /\ run_pc' = IF opportunities = <<>> THEN "sleep" ELSE "execute"
    /\ UNCHANGED <<is_running, trades_executed, scan_i, order_books, placed,
                   kill_checked, kill_switch_tripped, end_cause, asyncFrame>>

\* _execute_arbitrage(opportunities[0]): both market orders are gathered
\* with return_exceptions=True; each is accepted or raises.
AsyncExecute ==
    \E buy_ok \in BOOLEAN, sell_ok \in BOOLEAN :
        LET best == opportunities[1]
        IN  /\ run_pc = "execute"
            /\ trades_executed < MaxAsyncTrades
            /\ placed' = <<[side |-> "buy", exchange |-> best.buy_exchange,
                            amount |-> TradeAmountBase(best.buy_price),
                            accepted |-> buy_ok],
                           [side |-> "sell", exchange |-> best.sell_exchange,
                            amount |-> TradeAmountBase(best.buy_price),
                            accepted |-> sell_ok]>>
            /\ trades_executed' = trades_executed + 1
            /\ run_pc' = "sleep"
            /\ UNCHANGED <<is_running, scan_i, order_books, opportunities,
                           kill_checked, kill_switch_tripped, end_cause, asyncFrame>>

\* await asyncio.sleep(self.scan_interval_s)
AsyncSleep ==
    /\ run_pc = "sleep"
    /\ run_pc' = "loop_top"
    /\ UNCHANGED <<is_running, trades_executed, scan_i, order_books, opportunities,
                   placed, kill_checked, kill_switch_tripped, end_cause, asyncFrame>>

NextAsync ==
    \/ AsyncRun
    \/ AsyncStopRequest
    \/ AsyncLoopTop
    \/ AsyncCheckStopConditions
    \/ AsyncPortfolio
    \/ AsyncPortfolioRaises
    \/ ScanFetch
    \/ ScanCompare
    \/ ScanRaisedHandled
    \/ ScanReturn
    \/ AsyncExecute
    \/ AsyncSleep

(***************************************************************************)
(* ExchangeManager.get_balance and the RiskManager methods that read        *)
(* balances: check_balances and calculate_dynamic_trade_size.  Quote        *)
(* amounts are whole USDT, base amounts are in units of 0.00001 of the base *)
(* currency, and a dynamic trade size is in hundredths of a USDT, so that   *)
(* the arithmetic is exact.                                                 *)
(***************************************************************************)
BalanceCacheDuration == 30
MinViableSizeUsdt == 1

ExchangeNames == {"binance", "okx", "unlisted"}

\* self.clients: get_client returns None for any other name.
Clients == {"binance", "okx"}

\* A balance as fetch_balance returns it (its "free" part), or None.
NoBalance == [has |-> FALSE, USDT |-> 0, BTC |-> 0]
Balance(usdt, btc) == [has |-> TRUE, USDT |-> usdt, BTC |-> btc]
Balances == {Balance(90, 250), Balance(100, 200), Balance(100, 250)}

\* What retry_ccxt_call(client.fetch_balance)() does: returns a balance, or
\* raises once the retries are used up.
FetchRaises == NoBalance
FetchOutcomes == Balances \cup {FetchRaises}

\* Stands for the default 0 of last_balance_fetch_time.get(client_id, 0)
\* against time.time(): a fetch that is older than any cache duration.
NeverFetched == 0 - BalanceCacheDuration

\* ExchangeManager.get_balance(client, force_refresh): the cached balance
\* while it is young and no refresh is forced; else the fetched balance,
\* stored with its time; and the cached balance again when the fetch raises.
GetBalance(cache, times, t, client, force_refresh, outcome) ==
    IF ~force_refresh /\ (t - times[client]) < BalanceCacheDuration
    THEN [balance |-> cache[client], fetched |-> FALSE,
          cache |-> cache, times |-> times]
    ELSE IF outcome # FetchRaises
    THEN [balance |-> outcome, fetched |-> TRUE,
          cache |-> [cache EXCEPT ![client] = outcome],
          times |-> [times EXCEPT ![client] = t]]
    ELSE [balance |-> cache[client], fetched |-> FALSE,
          cache |-> cache, times |-> times]

\* The trade size and base amount of the checked opportunity: 100 USDT and
\* 0.0025 of the base currency (250 units).
CheckSizes == {100}
Amounts == {250}

NoBalCheck ==
    [called |-> FALSE, buy_exchange |-> "unlisted", sell_exchange |-> "unlisted",
     size |-> 0, amount |-> 0, requested |-> {},
     buy_bal |-> NoBalance, sell_bal |-> NoBalance,
     buy_fetched |-> FALSE, sell_fetched |-> FALSE,
     at |-> 0, reason |-> "none", result |-> FALSE]

BalanceDecisionBaseIgnored(buy_bal, sell_bal, size, amount) ==
    IF ~buy_bal.has \/ ~sell_bal.has THEN "no_balance"
    ELSE IF buy_bal.USDT < size THEN "insufficient_quote"
    ELSE "ok"

\* check_balances, from the two balances on: the "not buy_bal or not
\* sell_bal" test, then the quote check and the base check.
BalanceDecision(buy_bal, sell_bal, size, amount) ==
    IF ~buy_bal.has \/ ~sell_bal.has THEN "no_balance"
    ELSE IF buy_bal.USDT < size THEN "insufficient_quote"
    ELSE IF sell_bal.BTC < amount THEN "insufficient_base"
    ELSE "ok"

\* RiskManager.check_balances(opportunity, trade_size_usdt), with what the
\* two forced get_balance calls leave in the ExchangeManager.
CheckBalancesResult(cache, times, t, buy, sell, size, amount, buy_out, sell_out) ==
    IF buy \notin Clients \/ sell \notin Clients
    THEN [cache |-> cache, times |-> times,
          call |-> [NoBalCheck EXCEPT !.called = TRUE, !.buy_exchange = buy,
                                      !.sell_exchange = sell, !.size = size,
                                      !.amount = amount, !.at = t,
                                      !.reason = "no_client"]]
    ELSE LET b == GetBalance(cache, times, t, buy, TRUE, buy_out)
             s == GetBalance(b.cache, b.times, t, sell, TRUE, sell_out)
             reason == BalanceDecision(b.balance, s.balance, size, amount)
         IN  [cache |-> s.cache, times |-> s.times,
              call |-> [called |-> TRUE, buy_exchange |-> buy,
                        sell_exchange |-> sell, size |-> size, amount |-> amount,
                        requested |-> {buy, sell},
                        buy_bal |-> b.balance, sell_bal |-> s.balance,
                        buy_fetched |-> b.fetched, sell_fetched |-> s.fetched,
                        at |-> t, reason |-> reason, result |-> (reason = "ok")]]

\* risk_config["balance_percentage_per_trade"], in percent, and
\* risk_config["max_trade_size_usdt"], in hundredths of a USDT.
BalancePercentages == {1, 50}
MaxTradeSizesCents == {50, 2000}

Min(a, b) == IF a < b THEN a ELSE b

NoDynSize ==
    [called |-> FALSE, exchange |-> "unlisted", pct |-> 0, max_size |-> 0,
     balance |-> NoBalance, result |-> 0]

DynamicSizeUncapped(balance, pct, max_size) ==
    LET size_from_balance == balance.USDT * pct
    IN  IF ~balance.has THEN 0
        ELSE IF size_from_balance < MinViableSizeUsdt * 100 THEN 0
        ELSE size_from_balance

\* calculate_dynamic_trade_size from the balance on, in hundredths of a
\* USDT: available * (pct / 100), capped at max_size, 0 below 1 USDT.
DynamicSize(balance, pct, max_size) ==
    LET size_from_balance == balance.USDT * pct
        final == Min(size_from_balance, max_size)
    IN  IF ~balance.has THEN 0
        ELSE IF final < MinViableSizeUsdt * 100 THEN 0
        ELSE final

InitManager ==
    /\ cached_balances = [c \in Clients |-> NoBalance]
    /\ last_balance_fetch_time = [c \in Clients |-> NeverFetched]
    /\ bal_check = NoBalCheck
    /\ dyn_size = NoDynSize


managerFrame == <<capital_deployed_usd, total_portfolio_value_usd,
                  last_portfolio_update_ts, balance_kill_switch_usd,
                  last_call, commits_checked, pre_commit, roundtrip,
                  raceVars, botVars, execVars, asyncVars, rebalVars,
                  rootExecVars, lateVars>>

\* Time passes between two calls.
ManagerTick ==
    /\ \E d \in TickSteps :
          /\ now + d <= MaxNow
          /\ now' = now + d
    /\ UNCHANGED <<managerVars, managerFrame>>

\* A call of RiskManager.check_balances, for an opportunity between two
\* different exchanges.
CheckBalances ==
    \E buy \in ExchangeNames, sell \in ExchangeNames, size \in CheckSizes,
       amount \in Amounts, buy_out \in FetchOutcomes, sell_out \in FetchOutcomes :
        LET r == CheckBalancesResult(cached_balances, last_balance_fetch_time, now,
                                     buy, sell, size, amount, buy_out, sell_out)
        IN  /\ buy # sell
            /\ cached_balances' = r.cache
            /\ last_balance_fetch_time' = r.times
            /\ bal_check' = r.call
            /\ dyn_size' = NoDynSize
            /\ UNCHANGED <<now, managerFrame>>

\* A call of RiskManager.calculate_dynamic_trade_size.
CalculateDynamicTradeSize ==
    \E ex \in ExchangeNames, pct \in BalancePercentages,
       max_size \in MaxTradeSizesCents, out \in FetchOutcomes :
        /\ IF ex \notin Clients
           THEN /\ dyn_size' = [NoDynSize EXCEPT !.called = TRUE, !.exchange = ex,
                                                 !.pct = pct, !.max_size = max_size]
                /\ UNCHANGED <<cached_balances, last_balance_fetch_time>>
           ELSE LET g == GetBalance(cached_balances, last_balance_fetch_time, now,
                                    ex, FALSE, out)
                IN  /\ cached_balances' = g.cache
                    /\ last_balance_fetch_time' = g.times
                    /\ dyn_size' = [called |-> TRUE, exchange |-> ex, pct |-> pct,
                                    max_size |-> max_size, balance |-> g.balance,
                                    result |-> DynamicSize(g.balance, pct, max_size)]
        /\ bal_check' = NoBalCheck
        /\ UNCHANGED <<now, managerFrame>>

\* The name under which the scanner's exchange is a client.
ExchangeName(e) ==
    IF e = 1 THEN "binance" ELSE IF e = 2 THEN "okx" ELSE "unlisted"

\* A call of check_balances for the opportunity the scan put first, with the
\* configured trade size and the amount _execute_arbitrage derives from it
\* (in units of 0.00001).
CheckBalancesForOpportunity ==
    \E buy_out \in FetchOutcomes, sell_out \in FetchOutcomes :
        /\ run_pc = "execute"
        /\ LET best == opportunities[1]
               r == CheckBalancesResult(cached_balances, last_balance_fetch_time, now,
                                        ExchangeName(best.buy_exchange),
                                        ExchangeName(best.sell_exchange),
                                        TradeSizeUsdt,
                                        TradeAmountBase(best.buy_price) * 100000,
                                        buy_out, sell_out)
           IN  /\ cached_balances' = r.cache
               /\ last_balance_fetch_time' = r.times
               /\ bal_check' = r.call
        /\ UNCHANGED <<dyn_size, now, managerFrame>>

NextBalances ==
    \/ ManagerTick
    \/ CheckBalances
    \/ CalculateDynamicTradeSize

(***************************************************************************)
(* Rebalancer.run_rebalancing_check for a portfolio holding USDT and one    *)
(* other asset.  USD values, percentages and prices are whole numbers;      *)
(* asset amounts are in units of 0.00001, so 0.00375 is 375.                *)
(***************************************************************************)
DefaultMaxInventoryPercent == 10
RebalanceThresholdPercent == 5
AmountEpsilon == 1

\* asset_inventory_targets_percent has no entry for the asset.
NoTarget == 0 - 1
\* get_market_price returned nothing, or raised.
NoPrice == 0
\* The market defines no minimum order cost.
NoMinCost == 0

TargetPercents == {NoTarget, 0, 15}
PortfolioValues == {0, 1000}
AssetValues == {120, 200, 300}
MarketPrices == {NoPrice, 40000}
MinCosts == {NoMinCost, 80}

\* The clients in the order the sell loop visits them.
ClientOrder == <<"binance", "okx">>

RebalanceInputs ==
    [enabled : BOOLEAN, well_formed : BOOLEAN, total : PortfolioValues,
     value : AssetValues, target : TargetPercents, price : MarketPrices]

\* target_pct = float(targets.get(asset, default_max) or default_max)
TargetPct(target) ==
    LET got == IF target = NoTarget THEN DefaultMaxInventoryPercent ELSE target
    IN  IF got = 0 THEN DefaultMaxInventoryPercent ELSE got

\* current_pct > (target_pct + threshold), with
\* current_pct = value_usd / total_value * 100
OverTarget(value, total, target_pct) ==
    value * 100 > (target_pct + RebalanceThresholdPercent) * total

\* surplus_usd = value_usd - (total_value * target_pct / 100.0)
SurplusUsd(value, total, target_pct) == value - Quot(total * target_pct, 100)

\* total_amount_to_sell = surplus_usd / float(price), in units of 0.00001
TotalAmountToSell(surplus_usd, price) == Quot(surplus_usd * 100000, price)

NoDecision == [sell |-> FALSE, total_amount_to_sell |-> 0]

\* The part of run_rebalancing_check before the sell loop.
Decision(in) ==
    LET target_pct == TargetPct(in.target)
    IN  IF ~in.well_formed \/ ~in.enabled \/ in.total <= 0 THEN NoDecision
        ELSE IF ~OverTarget(in.value, in.total, target_pct) THEN NoDecision
        ELSE IF in.price = NoPrice THEN NoDecision
        ELSE [sell |-> TRUE,
              total_amount_to_sell |->
                  TotalAmountToSell(SurplusUsd(in.value, in.total, target_pct),
                                    in.price)]

BelowMinCostNever(sell_amount, price, min_cost) == FALSE

\* if min_cost and (sell_amount * price) < min_cost: continue
BelowMinCost(sell_amount, price, min_cost) ==
    min_cost # NoMinCost /\ sell_amount * price < min_cost * 100000

RebalanceOrderAsBuy(exchange, sell_amount, price, min_cost, accepted) ==
    [exchange |-> exchange, asset |-> "BTC", side |-> "buy",
     amount |-> sell_amount, price |-> price, min_cost |-> min_cost,
     accepted |-> accepted]

\* self._place_rebalance_order(client, asset, "sell", sell_amount)
RebalanceOrder(exchange, sell_amount, price, min_cost, accepted) ==
    [exchange |-> exchange, asset |-> "BTC", side |-> "sell",
     amount |-> sell_amount, price |-> price, min_cost |-> min_cost,
     accepted |-> accepted]

AfterFailedSellStops(i) == Len(ClientOrder) + 1

\* except Exception around _place_rebalance_order: "continue trying on
\* other exchanges"
AfterFailedSell(i) == i + 1

NoRebalanceInput ==
    [enabled |-> FALSE, well_formed |-> TRUE, total |-> 0, value |-> 0,
     target |-> NoTarget, price |-> NoPrice]

InitRebalancer ==
    /\ reb_pc = "idle"
    /\ reb_in = NoRebalanceInput
    /\ reb_i = 1
    /\ amount_left = 0
    /\ reb_decision = NoDecision
    /\ reb_events = <<>>
    /\ reb_warned = FALSE
    /\ reb_result = "none"


rebalFrame == <<riskVars, raceVars, botVars, execVars, asyncVars, rootExecVars,
                lateVars>>

\* run_rebalancing_check(portfolio) up to the sell loop: the early returns,
\* the outer except for a portfolio it cannot read, and the decision for the
\* asset.
RebalanceBegin ==
    \E in \in RebalanceInputs :
        LET d == Decision(in)
        IN  /\ reb_pc = "idle"
            /\ reb_in' = in
            /\ reb_decision' = d
            /\ amount_left' = d.total_amount_to_sell
            /\ reb_i' = 1
            /\ reb_events' = <<>>
            /\ reb_warned' = FALSE
            /\ reb_pc' = IF d.sell THEN "selling" ELSE "done"
            /\ reb_result' = IF d.sell THEN "none" ELSE "returned"
            /\ UNCHANGED <<managerVars, rebalFrame>>

\* One pass of the loop over the exchanges.
RebalanceExchange ==
    \E outcome \in FetchOutcomes, min_cost \in MinCosts, accepted \in BOOLEAN :
        LET ex == ClientOrder[reb_i]
            g == GetBalance(cached_balances, last_balance_fetch_time, now,
                            ex, FALSE, outcome)
            available == IF g.balance.has THEN g.balance.BTC ELSE 0
            sell_amount == Min(available, amount_left)
            kind == IF available <= 0 THEN "no_balance"
                    ELSE IF BelowMinCost(sell_amount, reb_in.price, min_cost)
                    THEN "below_min_cost"
                    ELSE IF accepted THEN "sold" ELSE "failed"
        IN  /\ reb_pc = "selling"
            /\ reb_i <= Len(ClientOrder)
            /\ amount_left > AmountEpsilon
            /\ cached_balances' = g.cache
            /\ last_balance_fetch_time' = g.times
            /\ amount_left' = IF kind = "sold" THEN amount_left - sell_amount
                              ELSE amount_left
            /\ reb_events' = Append(reb_events,
                   [kind |-> kind, before |-> amount_left,
                    order |-> IF kind \in {"sold", "failed"}
                              THEN <<RebalanceOrder(ex, sell_amount, reb_in.price,
                                                    min_cost, accepted)>>
                              ELSE <<>>])
            /\ reb_i' = IF kind = "failed" THEN AfterFailedSell(reb_i) ELSE reb_i + 1
            /\ UNCHANGED <<bal_check, dyn_size, reb_pc, reb_in, reb_decision,
                           reb_warned, reb_result, rebalFrame>>

\* The loop ends, by its break or with the last exchange; the warning when
\* something is left.
RebalanceLoopEnd ==
    /\ reb_pc = "selling"
    /\ (reb_i > Len(ClientOrder) \/ amount_left <= AmountEpsilon)
    /\ reb_warned' = (amount_left > AmountEpsilon)
    /\ reb_pc' = "done"
    /\ reb_result' = "returned"
    /\ UNCHANGED <<managerVars, reb_in, reb_i, amount_left, reb_decision,
                   reb_events, rebalFrame>>

\* The caller goes on after the call returned; the locals of the call are
\* gone.
RebalanceReturn ==
    /\ reb_pc = "done"
    /\ reb_pc' = "idle"
    /\ reb_in' = NoRebalanceInput
    /\ reb_i' = 1
    /\ amount_left' = 0
    /\ reb_decision' = NoDecision
    /\ reb_events' = <<>>
    /\ reb_warned' = FALSE
    /\ reb_result' = "none"
    /\ UNCHANGED <<managerVars, rebalFrame>>

NextRebalance ==
    \/ ManagerTick
    \/ RebalanceBegin
    \/ RebalanceExchange
    \/ RebalanceLoopEnd
    \/ RebalanceReturn

(***************************************************************************)
(* The TradeExecutor of trade_executor.py, as its test uses it.  Profits    *)
(* are in hundredths of a USDT.                                             *)
(***************************************************************************)
MaxRootOrders == 4

\* The methods the class defines.
TradeExecutorMethods == {"__init__", "execute_trade"}

\* The methods the test and the engine call on an executor.
CalledMethods == {"execute_and_monitor", "execute_trade"}

RootOpportunities ==
    [symbol : {"BTC/USDT", "ETH/USDT"}, net_profit_usd : {2, 5},
     buy_exchange : {"binance"}, sell_exchange : {"okx", "unlisted"}]

NoRootCall ==
    [method |-> "none", dry_run |-> TRUE, symbol |-> "none", net_profit_usd |-> 0,
     raised |-> "none", status |-> "none", has_profit |-> FALSE, profit |-> 0,
     place_calls |-> 0, monitor_calls |-> 0, orders |-> <<>>, logged |-> <<>>]

RootCall(method, dry_run, o) ==
    [NoRootCall EXCEPT !.method = method, !.dry_run = dry_run,
                       !.symbol = o.symbol, !.net_profit_usd = o.net_profit_usd]

\* A call of a method the class does not define.
MissingMethod(method, dry_run, o) ==
    [RootCall(method, dry_run, o) EXCEPT !.raised = "AttributeError"]

\* execute_trade(opportunity): None without both clients; in dry run a Trade
\* with status DRY_RUN; else the market buy, then the market sell, and a
\* Trade with status SUCCESS, or None when an order raises.
ExecuteTrade(dry_run, o, buy_ok, sell_ok) ==
    LET call == RootCall("execute_trade", dry_run, o)
        buy == [side |-> "buy", symbol |-> o.symbol, exchange |-> o.buy_exchange]
        sell == [side |-> "sell", symbol |-> o.symbol, exchange |-> o.sell_exchange]
    IN  IF o.buy_exchange \notin Clients \/ o.sell_exchange \notin Clients
        THEN [call EXCEPT !.status = "None"]
        ELSE IF dry_run THEN [call EXCEPT !.status = "DRY_RUN"]
        ELSE IF ~buy_ok THEN [call EXCEPT !.status = "None"]
        ELSE IF ~sell_ok THEN [call EXCEPT !.status = "None", !.orders = <<buy>>]
        ELSE [call EXCEPT !.status = "SUCCESS", !.orders = <<buy, sell>>]

InitRootExecutor ==
    /\ xt_call = NoRootCall
    /\ xt_orders = <<>>

(***************************************************************************)
(* AsyncArbitrageBot._execute_arbitrage at the grain of its two            *)
(* create_order coroutines: created, started by asyncio.gather, and each    *)
(* completing, in any order, with an order or with the exception that       *)
(* AsyncExchangeManager.create_order re-raises.                             *)
(***************************************************************************)
Legs == {"buy", "sell"}
LegDone == {"ok", "raised"}

\* Opportunities as the scanner hands them over: two different exchanges and
\* a buy price the scanner could divide by.
GatherOpportunities ==
    {[buy_exchange |-> b, sell_exchange |-> s, buy_price |-> p] :
        b \in Exchanges, s \in Exchanges, p \in {50, 100}} 

NoLegs == [l \in Legs |-> "none"]
NoGatherOpp == [buy_exchange |-> 0, sell_exchange |-> 0, buy_price |-> 0]

\* asyncio.gather(buy_task, sell_task) without return_exceptions: the first
\* exception is raised into the awaiting method at once.
GatherPropagates(legs) ==
    IF \E l \in Legs : legs[l] = "raised" THEN "raises"
    ELSE IF \A l \in Legs : legs[l] \in LegDone THEN "results"
    ELSE "waiting"

\* await asyncio.gather(buy_task, sell_task, return_exceptions=True): the
\* method resumes with both results once both coroutines are done.
GatherOutcome(legs) ==
    IF \A l \in Legs : legs[l] \in LegDone THEN "results" ELSE "waiting"

\* isinstance(buy_result, Exception) != isinstance(sell_result, Exception)
ImbalanceDetected(buy_result, sell_result) ==
    (buy_result = "raised") # (sell_result = "raised")

InitGather ==
    /\ xa_pc = "idle"
    /\ xa_opp = NoGatherOpp
    /\ xa_legs = NoLegs
    /\ xa_seen = NoLegs
    /\ xa_imbalance = "untested"

(***************************************************************************)
(* TradeExecutor.set_runtime_params and the monitor loop of                 *)
(* TradeExecutor._place_and_wait, one pass of the loop per step.  Times are *)
(* in units of 1/1280 s, so that 0.05 s is 64 units and the backoff factor  *)
(* 1.5 is exact for the values used: every product that is not a whole      *)
(* number of units is above the cap it is compared with.  The time that     *)
(* passes is the time slept.                                                *)
(***************************************************************************)
PollFloor == 64
DefaultMinPoll == 192
DefaultMaxPoll == 960
DefaultMonitorTimeout == 38400

\* An argument left at None.
NoArg == 0 - 1

TimeoutArgs == {NoArg, 3200}
MinPollArgs == {NoArg, 0, 1280}
MaxPollArgs == {NoArg, 960}
\* opportunity.order_monitor_timeout_s, when the opportunity has one.
OppTimeouts == {NoArg, 0}

Max(a, b) == IF a > b THEN a ELSE b

\* What fetch_order can report.
FetchedStatuses == {"open", "unknown", "closed", "filled", "canceled", "rejected"}
NoStatus == "None"

\* set_runtime_params(monitor_timeout_s, min_poll_s, max_poll_s)
SetRuntimeParamsResult(params, t, lo, hi) ==
    LET timeout == IF t # NoArg THEN t ELSE params.timeout
        new_min == IF lo # NoArg THEN Max(PollFloor, lo) ELSE params.min
        new_max == IF hi # NoArg THEN Max(new_min, hi) ELSE params.max
    IN  [timeout |-> timeout, min |-> new_min, max |-> new_max]

\* next_sleep = min(self.max_poll_s, max(self.min_poll_s, next_sleep * 1.5))
Backoff(sleep, lo, hi) == Min(hi, Max(lo, (sleep * 3) \div 2))

\* A fetch error that ends the wait with the order taken as rejected.
TransientStatusAborts(last) == "rejected"

\* except Exception: status = last_status or "open"
TransientStatus(last) == IF last = NoStatus THEN "open" ELSE last

\* still_open = any(o.get("id") == order_id for o in open_list);
\* status = "open" if still_open else "closed"
OpenOrdersStatus(still_open) == IF still_open THEN "open" ELSE "closed"

NoPoll == [kind |-> "none", got |-> NoStatus, before |-> NoStatus]

\* No _place_and_wait is running: it has no locals.
NoLoop ==
    /\ pw_pc = "idle"
    /\ timeout_s = 0
    /\ has_fetch_order = TRUE
    /\ pw_status = NoStatus
    /\ last_status = NoStatus
    /\ pw_elapsed = 0
    /\ next_sleep = 0
    /\ pw_slept = 0
    /\ pw_poll = NoPoll
    /\ pw_exit = "none"
    /\ pw_cancel = "none"

InitMonitor ==
    /\ default_monitor_timeout_s = DefaultMonitorTimeout
    /\ min_poll_s = DefaultMinPoll
    /\ max_poll_s = DefaultMaxPoll
    /\ NoLoop

monitorFrame == <<riskVars, raceVars, botVars, busy, opp, leg, status, leg_status,
                  result, orders, fills, cancel_failed, asyncVars, managerVars,
                  rebalVars, rootExecVars, gatherVars, stopVars, retryVars>>

\* set_runtime_params, called between two executions.
SetRuntimeParams ==
    \E t \in TimeoutArgs, lo \in MinPollArgs, hi \in MaxPollArgs :
        LET p == SetRuntimeParamsResult(
                     [timeout |-> default_monitor_timeout_s,
                      min |-> min_poll_s, max |-> max_poll_s], t, lo, hi)
        IN  /\ pw_pc = "idle"
            /\ default_monitor_timeout_s' = p.timeout
            /\ min_poll_s' = p.min
            /\ max_poll_s' = p.max
            /\ UNCHANGED <<loopVars, exec_stop_evt, monitorFrame>>

\* request_stop(), from any thread at any time.
PwRequestStop ==
    /\ ~exec_stop_evt
    /\ exec_stop_evt' = TRUE
    /\ UNCHANGED <<monitorVars, monitorFrame>>

\* reset_stop(), at the start of execute_and_monitor_opportunity.
PwResetStop ==
    /\ pw_pc = "idle"
    /\ exec_stop_evt
    /\ exec_stop_evt' = FALSE
    /\ UNCHANGED <<monitorVars, monitorFrame>>

\* _place_and_wait of a live leg up to the while: the order is placed and
\* the loop's locals are set.
PwBegin ==
    \E t \in OppTimeouts, has \in BOOLEAN :
        /\ pw_pc = "idle"
        /\ pw_pc' = "loop"
        /\ timeout_s' = IF t # NoArg THEN t ELSE default_monitor_timeout_s
        /\ has_fetch_order' = has
        /\ pw_status' = "unknown"
        /\ last_status' = NoStatus
        /\ pw_elapsed' = 0
        /\ next_sleep' = min_poll_s
        /\ pw_slept' = 0
        /\ pw_poll' = NoPoll
        /\ pw_exit' = "none"
        /\ pw_cancel' = "none"
        /\ UNCHANGED <<paramVars, exec_stop_evt, monitorFrame>>

\* while not self.is_stopping(): the stop is seen.
PwStopSeen ==
    /\ pw_pc = "loop"
    /\ exec_stop_evt
    /\ pw_pc' = "after_loop"
    /\ pw_exit' = "stop"
    /\ UNCHANGED <<paramVars, timeout_s, has_fetch_order, pw_status, last_status,
                   pw_elapsed, next_sleep, pw_slept, pw_poll, pw_cancel,
                   exec_stop_evt, monitorFrame>>

\* if elapsed >= timeout_s: status = "timeout"; break
PwTimeout ==
    /\ pw_pc = "loop"
    /\ ~exec_stop_evt
    /\ pw_elapsed >= timeout_s
    /\ pw_status' = "timeout"
    /\ pw_pc' = "after_loop"
    /\ pw_exit' = "timeout"
    /\ UNCHANGED <<paramVars, timeout_s, has_fetch_order, last_status, pw_elapsed,
                   next_sleep, pw_slept, pw_poll, pw_cancel, exec_stop_evt,
                   monitorFrame>>

\* The rest of a pass once the poll gave st: last_status, the break on a
\* final status, else the sleep and the backoff.
PwAfterPoll(kind, st) ==
    /\ pw_status' = st
    /\ last_status' = st
    /\ pw_poll' = [kind |-> kind, got |-> st, before |-> last_status]
    /\ IF st \in TerminalStatuses
       THEN /\ pw_pc' = "after_loop"
            /\ pw_exit' = "final"
            /\ UNCHANGED <<pw_elapsed, next_sleep, pw_slept>>
       ELSE /\ pw_elapsed' = pw_elapsed + next_sleep
            /\ pw_slept' = next_sleep
            /\ next_sleep' = Backoff(next_sleep, min_poll_s, max_poll_s)
            /\ UNCHANGED <<pw_pc, pw_exit>>
    /\ UNCHANGED <<paramVars, timeout_s, has_fetch_order, pw_cancel, exec_stop_evt,
                   monitorFrame>>

\* A pass that polls with client.fetch_order.
PwFetchOrder ==
    \E st \in FetchedStatuses :
        /\ pw_pc = "loop"
        /\ ~exec_stop_evt
        /\ pw_elapsed < timeout_s
        /\ has_fetch_order
        /\ PwAfterPoll("fetch_order", st)

\* A pass that polls with client.fetch_open_orders.
PwFetchOpenOrders ==
    \E still_open \in BOOLEAN :
        /\ pw_pc = "loop"
        /\ ~exec_stop_evt
        /\ pw_elapsed < timeout_s
        /\ ~has_fetch_order
        /\ PwAfterPoll(IF still_open THEN "listed" ELSE "not_listed",
                       OpenOrdersStatus(still_open))

\* A pass whose poll raises.
PwFetchRaises ==
    /\ pw_pc = "loop"
    /\ ~exec_stop_evt
    /\ pw_elapsed < timeout_s
    /\ PwAfterPoll("raised", TransientStatus(last_status))

\* After the loop: the cancel when a stop is pending and the order is not
\* filled, and the return.
PwAfterLoop ==
    \E cancel_ok \in BOOLEAN :
        /\ pw_pc = "after_loop"
        /\ pw_pc' = "returned"
        /\ IF exec_stop_evt /\ pw_status \notin FilledStatuses
           THEN /\ pw_cancel' = IF cancel_ok THEN "canceled" ELSE "raised"
                /\ pw_status' = IF cancel_ok THEN "canceled" ELSE pw_status
           ELSE /\ pw_cancel' = "none"
                /\ pw_status' = pw_status
        /\ UNCHANGED <<paramVars, timeout_s, has_fetch_order, last_status, pw_elapsed,
                       next_sleep, pw_slept, pw_poll, pw_exit, exec_stop_evt,
                       monitorFrame>>

\* The caller has the leg's result.
PwReturn ==
    /\ pw_pc = "returned"
    /\ pw_pc' = "idle"
    /\ timeout_s' = 0
    /\ has_fetch_order' = TRUE
    /\ pw_status' = NoStatus
    /\ last_status' = NoStatus
    /\ pw_elapsed' = 0
    /\ next_sleep' = 0
    /\ pw_slept' = 0
    /\ pw_poll' = NoPoll
    /\ pw_exit' = "none"
    /\ pw_cancel' = "none"
    /\ UNCHANGED <<paramVars, exec_stop_evt, monitorFrame>>

\* One pass of the while loop.
PwPass ==
    \/ PwStopSeen
    \/ PwTimeout
    \/ PwFetchOrder
    \/ PwFetchOpenOrders
    \/ PwFetchRaises

NextMonitor ==
    \/ SetRuntimeParams
    \/ PwRequestStop
    \/ PwResetStop
    \/ PwBegin
    \/ PwStopSeen
    \/ PwTimeout
    \/ PwFetchOrder
    \/ PwFetchOpenOrders
    \/ PwFetchRaises
    \/ PwAfterLoop
    \/ PwReturn

(***************************************************************************)
(* retry_ccxt_call, the decorator of Rebalancer._place_rebalance_order, and *)
(* the rebalancer's sell loop at the grain of the single invocations of the *)
(* wrapped function.  An invocation that ends in a network-type error has   *)
(* or has not delivered its order to the exchange before the error.         *)
(***************************************************************************)
MaxRetries == 3

NetworkTypes == {"NetworkError", "ExchangeNotAvailable", "RequestTimeout"}
InvocationOutcomes == {"ok", "ExchangeError", "ValueError"} \cup NetworkTypes

\* What an invocation can be: its outcome and whether the order reached
\* the exchange.
Invocations ==
    {[outcome |-> o, reached |-> r] : o \in InvocationOutcomes, r \in BOOLEAN}
        \ ({[outcome |-> "ok", reached |-> FALSE]}
           \cup {[outcome |-> o, reached |-> TRUE] : o \in {"ExchangeError", "ValueError"}})

\* A wrapper that retries after every exception.
AfterInvocationRetriesAll(i, outcome) ==
    IF outcome = "ok" THEN "return"
    ELSE IF i = MaxRetries - 1 THEN "raise" ELSE "retry"

\* One pass of `for i in range(max_retries)`: return func(...), the except
\* clause of the network types with its raise on the last pass, the except
\* clause of ExchangeError, and any other exception, which no clause catches.
AfterInvocation(i, outcome) ==
    IF outcome = "ok" THEN "return"
    ELSE IF outcome \in NetworkTypes
         THEN (IF i = MaxRetries - 1 THEN "raise" ELSE "retry")
         ELSE "raise"

NoOrder == [amount |-> 0, available |-> 0, min_cost |-> NoMinCost]

InitRetry ==
    /\ rt_i = 0
    /\ rt_delay = 1
    /\ rt_calls = <<>>
    /\ rt_result = "none"
    /\ rt_order = NoOrder
    /\ reb_submitted = 0

retryFrame == <<riskVars, raceVars, botVars, execVars, asyncVars, rootExecVars,
                gatherVars, monitorVars, stopVars, bal_check, dyn_size>>

\* run_rebalancing_check up to the sell loop, for a run whose orders are
\* followed one invocation at a time.
RetryRebalanceBegin ==
    \E in \in RebalanceInputs :
        LET d == Decision(in)
        IN  /\ reb_pc = "idle"
            /\ d.sell
            /\ reb_in' = in
            /\ reb_decision' = d
            /\ amount_left' = d.total_amount_to_sell
            /\ reb_i' = 1
            /\ reb_events' = <<>>
            /\ reb_warned' = FALSE
            /\ reb_pc' = "selling"
            /\ reb_result' = "none"
            /\ reb_submitted' = 0
            /\ UNCHANGED <<cached_balances, last_balance_fetch_time, rt_i, rt_delay,
                           rt_calls, rt_result, rt_order, retryFrame>>

\* One pass of the loop over the exchanges up to the call of
\* _place_rebalance_order: the balance, sell_amount, the min-cost test.
RebalancePlace ==
    \E outcome \in FetchOutcomes, min_cost \in MinCosts :
        LET ex == ClientOrder[reb_i]
            g == GetBalance(cached_balances, last_balance_fetch_time, now,
                            ex, FALSE, outcome)
            available == IF g.balance.has THEN g.balance.BTC ELSE 0
            sell_amount == Min(available, amount_left)
            kind == IF available <= 0 THEN "no_balance"
                    ELSE IF BelowMinCost(sell_amount, reb_in.price, min_cost)
                    THEN "below_min_cost"
                    ELSE "placing"
        IN  /\ reb_pc = "selling"
            /\ reb_i <= Len(ClientOrder)
            /\ amount_left > AmountEpsilon
            /\ cached_balances' = g.cache
            /\ last_balance_fetch_time' = g.times
            /\ IF kind = "placing"
               THEN /\ reb_pc' = "placing"
                    /\ rt_order' = [amount |-> sell_amount, available |-> available,
                                    min_cost |-> min_cost]
                    /\ UNCHANGED <<reb_i, reb_events>>
               ELSE /\ reb_i' = reb_i + 1
                    /\ reb_events' = Append(reb_events,
                           [kind |-> kind, before |-> amount_left, order |-> <<>>])
                    /\ UNCHANGED <<reb_pc, rt_order>>
            /\ UNCHANGED <<amount_left, reb_in, reb_decision, reb_warned, reb_result,
                           reb_submitted, rt_i, rt_delay, rt_calls, rt_result,
                           retryFrame>>

\* One pass of the wrapper's loop: the wrapped _place_rebalance_order is
\* invoked and sends its order.
RetryInvoke ==
    \E call \in Invocations :
        LET next == AfterInvocation(rt_i, call.outcome)
        IN  /\ reb_pc = "placing"
            /\ rt_result = "none"
            /\ rt_calls' = Append(rt_calls, call)
            /\ reb_submitted' = reb_submitted + (IF call.reached THEN rt_order.amount ELSE 0)
            /\ rt_result' = CASE next = "return" -> "returned"
                              [] next = "raise" -> "raised"
                              [] OTHER -> "none"
            /\ rt_i' = IF next = "retry" THEN rt_i + 1 ELSE rt_i
            /\ rt_delay' = IF next = "retry" THEN rt_delay * 2 ELSE rt_delay
            /\ UNCHANGED <<rebalVars, cached_balances, last_balance_fetch_time,
                           rt_order, retryFrame>>

\* The wrapper has returned or raised: amount_left -= sell_amount, or the
\* except clause that goes on with the next exchange.  The wrapper's locals
\* are gone.
RebalanceAfterPlace ==
    LET ok == rt_result = "returned"
    IN  /\ reb_pc = "placing"
        /\ rt_result # "none"
        /\ amount_left' = IF ok THEN amount_left - rt_order.amount ELSE amount_left
        /\ reb_events' = Append(reb_events,
               [kind |-> IF ok THEN "sold" ELSE "failed", before |-> amount_left,
                order |-> <<RebalanceOrder(ClientOrder[reb_i], rt_order.amount,
                                           reb_in.price, rt_order.min_cost, ok)>>])
        /\ reb_i' = IF ok THEN reb_i + 1 ELSE AfterFailedSell(reb_i)
        /\ reb_pc' = "selling"
        /\ rt_i' = 0
        /\ rt_delay' = 1
        /\ rt_calls' = <<>>
        /\ rt_result' = "none"
        /\ rt_order' = NoOrder
        /\ UNCHANGED <<reb_in, reb_decision, reb_warned, reb_result, reb_submitted,
                       cached_balances, last_balance_fetch_time, retryFrame>>

\* The loop ends and run_rebalancing_check returns.
RetryRebalanceEnd ==
    /\ reb_pc = "selling"
    /\ (reb_i > Len(ClientOrder) \/ amount_left <= AmountEpsilon)
    /\ reb_warned' = (amount_left > AmountEpsilon)
    /\ reb_pc' = "done"
    /\ reb_result' = "returned"
    /\ UNCHANGED <<reb_in, reb_i, amount_left, reb_decision, reb_events,
                   cached_balances, last_balance_fetch_time, retryVars, retryFrame>>

\* The caller goes on; the locals of the call are gone.
RetryRebalanceReturn ==
    /\ reb_pc = "done"
    /\ reb_pc' = "idle"
    /\ reb_in' = NoRebalanceInput
    /\ reb_i' = 1
    /\ amount_left' = 0
    /\ reb_decision' = NoDecision
    /\ reb_events' = <<>>
    /\ reb_warned' = FALSE
    /\ reb_result' = "none"
    /\ rt_i' = 0
    /\ rt_delay' = 1
    /\ rt_calls' = <<>>
    /\ rt_result' = "none"
    /\ rt_order' = NoOrder
    /\ reb_submitted' = 0
    /\ UNCHANGED <<cached_balances, last_balance_fetch_time, retryFrame>>

NextRetry ==
    \/ RetryRebalanceBegin
    \/ RebalancePlace
    \/ RetryInvoke
    \/ RebalanceAfterPlace
    \/ RetryRebalanceEnd
    \/ RetryRebalanceReturn

\* The services with any stop condition, and with the model's bound as
\* max_trades.
InitLateRest == InitGather /\ InitMonitor /\ InitRetry

InitLate == InitLateRest /\ max_trades = MaxAsyncTrades

InitServices == InitManager /\ InitRebalancer /\ InitRootExecutor /\ InitLate

gatherFrame == <<riskVars, raceVars, botVars, execVars, managerVars, rebalVars,
                 rootExecVars, monitorVars, stopVars, retryVars>>
asyncRest == <<is_running, run_pc, scan_i, order_books, opportunities, placed,
               kill_checked, kill_switch_tripped, end_cause>>

\* _execute_arbitrage(opportunity) up to the await: the amount is computed
\* and the two coroutines are created.
XaBegin ==
    \E o \in GatherOpportunities :
        /\ xa_pc = "idle"
        /\ o.buy_exchange # o.sell_exchange
        /\ trades_executed < MaxAsyncTrades
        /\ xa_pc' = "gather"
        /\ xa_opp' = o
        /\ xa_legs' = [l \in Legs |-> "created"]
        /\ xa_seen' = NoLegs
        /\ xa_imbalance' = "untested"
        /\ UNCHANGED <<trades_executed, asyncRest, gatherFrame>>

\* gather schedules a coroutine: create_order sends the order.
XaLegIssued ==
    \E l \in Legs :
        /\ xa_pc = "gather"
        /\ xa_legs[l] = "created"
        /\ xa_legs' = [xa_legs EXCEPT ![l] = "issued"]
        /\ UNCHANGED <<xa_pc, xa_opp, xa_seen, xa_imbalance, trades_executed,
                       asyncRest, gatherFrame>>

\* create_order returns the order or logs and re-raises.
XaLegCompletes ==
    \E l \in Legs, outcome \in LegDone :
        /\ xa_legs[l] = "issued"
        /\ xa_legs' = [xa_legs EXCEPT ![l] = outcome]
        /\ UNCHANGED <<xa_pc, xa_opp, xa_seen, xa_imbalance, trades_executed,
                       asyncRest, gatherFrame>>

\* The await ends; the results are unpacked and logged, the imbalance test is
\* made and trades_executed is incremented.
XaAfterGather ==
    /\ xa_pc = "gather"
    /\ GatherOutcome(xa_legs) # "waiting"
    /\ IF GatherOutcome(xa_legs) = "results"
       THEN /\ xa_pc' = "returned"
            /\ xa_seen' = xa_legs
            /\ xa_imbalance' = IF ImbalanceDetected(xa_legs["buy"], xa_legs["sell"])
                               THEN "imbalance" ELSE "balanced"
            /\ trades_executed' = trades_executed + 1
       ELSE /\ xa_pc' = "raised"
            /\ UNCHANGED <<xa_seen, xa_imbalance, trades_executed>>
    /\ UNCHANGED <<xa_opp, xa_legs, asyncRest, gatherFrame>>

\* The caller goes on: the coroutines of a finished call are gone.
XaReturn ==
    /\ xa_pc \in {"returned", "raised"}
    /\ \A l \in Legs : xa_legs[l] \in LegDone
    /\ xa_pc' = "idle"
    /\ xa_opp' = NoGatherOpp
    /\ xa_legs' = NoLegs
    /\ xa_seen' = NoLegs
    /\ xa_imbalance' = "untested"
    /\ UNCHANGED <<trades_executed, asyncRest, gatherFrame>>

NextGather ==
    \/ XaBegin
    \/ XaLegIssued
    \/ XaLegCompletes
    \/ XaAfterGather
    \/ XaReturn

rootExecFrame == <<riskVars, raceVars, botVars, execVars, asyncVars,
                   managerVars, rebalVars, lateVars>>

\* executor.execute_and_monitor(opportunity, session_id)
ExecuteAndMonitorCall ==
    \E dry_run \in BOOLEAN, o \in RootOpportunities :
        /\ "execute_and_monitor" \notin TradeExecutorMethods
        /\ xt_call' = MissingMethod("execute_and_monitor", dry_run, o)
        /\ UNCHANGED <<xt_orders, rootExecFrame>>

\* await executor.execute_trade(opportunity)
ExecuteTradeCall ==
    \E dry_run \in BOOLEAN, o \in RootOpportunities,
       buy_ok \in BOOLEAN, sell_ok \in BOOLEAN :
        LET call == ExecuteTrade(dry_run, o, buy_ok, sell_ok)
        IN  /\ Len(xt_orders) + Len(call.orders) <= MaxRootOrders
            /\ xt_call' = call
            /\ xt_orders' = xt_orders \o call.orders
            /\ UNCHANGED rootExecFrame

NextExecutor ==
    \/ ExecuteAndMonitorCall
    \/ ExecuteTradeCall

\* The books of the two exchanges of Scenario A (bid 99 / ask 100 and
\* bid 103 / ask 104), each fetched or not.
ScenarioBookA == [fetched |-> TRUE, asks |-> <<100>>, bids |-> <<99>>]
ScenarioBookB == [fetched |-> TRUE, asks |-> <<104>>, bids |-> <<103>>]
ScenarioBooks == {NoBook, ScenarioBookA, ScenarioBookB}

\* The gather of ScanFetch, with the exchanges quoting the scenario's books.
ScanFetchScenario ==
    \E books \in [Exchanges -> ScenarioBooks] :
        /\ run_pc = "scan_fetch"
        /\ order_books' = books
        /\ run_pc' = "scan_compare"
        /\ UNCHANGED <<is_running, trades_executed, scan_i, opportunities, placed,
                       kill_checked, kill_switch_tripped, end_cause, asyncFrame>>

NextScenario ==
    \/ AsyncRun
    \/ AsyncStopRequest
    \/ AsyncLoopTop
    \/ AsyncCheckStopConditions
    \/ AsyncPortfolio
    \/ AsyncPortfolioRaises
    \/ ScanFetchScenario
    \/ ScanCompare
    \/ ScanReturn
    \/ AsyncExecute
    \/ AsyncSleep

InitAsyncSpec ==
    /\ InitRisk
    /\ balance_kill_switch_usd >= 0
    /\ InitRaceIdle
    /\ InitEngine
    /\ InitAsyncIdle /\ InitServices

SpecAsync == InitAsyncSpec /\ [][NextAsync]_vars


SpecScenario == InitAsyncSpec /\ [][NextScenario]_vars

\* The scanning bot together with balance checks of what it found.
NextCooldown ==
    \/ ManagerTick
    \/ CheckBalancesForOpportunity
    \/ AsyncRun
    \/ AsyncStopRequest
    \/ AsyncLoopTop
    \/ AsyncCheckStopConditions
    \/ AsyncPortfolio
    \/ AsyncPortfolioRaises
    \/ ScanFetchScenario
    \/ ScanCompare
    \/ ScanReturn
    \/ AsyncExecute
    \/ AsyncSleep

InitRiskFixed ==
    /\ capital_deployed_usd = 0
    /\ total_portfolio_value_usd = 0
    /\ last_portfolio_update_ts = 0
    /\ balance_kill_switch_usd = 0
    /\ now = 0
    /\ last_call = Call("none", 0, FALSE, TRUE)
    /\ commits_checked = TRUE
    /\ pre_commit = 0
    /\ roundtrip = FALSE

InitEngineSpec == InitRiskFixed /\ InitRaceIdle /\ InitEngine /\ InitAsyncIdle /\ InitServices

SpecEngine == InitEngineSpec /\ [][NextEngine]_vars

\* The configured max_trades: none, or 0 .. MaxAsyncTrades.
MaxTradesConfigs == {NoMaxTrades} \cup (0 .. MaxAsyncTrades)

InitStopConditions ==
    /\ InitRiskFixed
    /\ InitRaceIdle
    /\ InitEngine
    /\ InitAsyncIdle
    /\ InitManager /\ InitRebalancer /\ InitRootExecutor /\ InitLateRest
    /\ max_trades \in MaxTradesConfigs

SpecStopConditions == InitStopConditions /\ [][NextScenario]_vars

InitBalances == InitRiskFixed /\ InitRaceIdle /\ InitEngine /\ InitAsyncIdle /\ InitServices

SpecBalances == InitBalances /\ [][NextBalances]_vars

InitRebalance ==
    /\ capital_deployed_usd = 100
    /\ total_portfolio_value_usd = 1000
    /\ last_portfolio_update_ts = 0
    /\ balance_kill_switch_usd = 0
    /\ now = 0
    /\ last_call = Call("none", 0, FALSE, TRUE)
    /\ commits_checked = TRUE
    /\ pre_commit = 0
    /\ roundtrip = FALSE
    /\ InitRaceIdle /\ InitEngine /\ InitAsyncIdle /\ InitServices

SpecRebalance == InitRebalance /\ [][NextRebalance]_vars

SpecCooldown == InitBalances /\ [][NextCooldown]_vars

SpecExecutor == InitBalances /\ [][NextExecutor]_vars

SpecGather == InitBalances /\ [][NextGather]_vars

SpecMonitor == InitBalances /\ [][NextMonitor]_vars

\* The thread in _place_and_wait keeps running: a pass of the loop that can
\* be made is made.
SpecMonitorFair == SpecMonitor /\ WF_vars(PwPass)

SpecRetry == InitRebalance /\ [][NextRetry]_vars

InitRace ==
    /\ race_d0 \in {0, 50, 100}
    /\ capital_deployed_usd = race_d0
    /\ total_portfolio_value_usd = 1000
    /\ last_portfolio_update_ts = 0
    /\ balance_kill_switch_usd = 0
    /\ now = 0
    /\ last_call = Call("none", 0, FALSE, TRUE)
    /\ commits_checked = TRUE
    /\ pre_commit = 0
    /\ roundtrip = FALSE
    /\ race_pc = [t \in RaceThreads |-> "start"]
    /\ race_op \in [RaceThreads -> RaceOps]
    /\ race_reg = [t \in RaceThreads |-> 0]
    /\ InitEngine
    /\ InitAsyncIdle /\ InitServices

SpecRace == InitRace /\ [][NextRace]_vars

Init == InitRisk /\ InitRaceIdle /\ InitEngine /\ InitAsyncIdle /\ InitServices

Next ==
    \/ Tick
    \/ CanDeployCapital
    \/ CommitCapital
    \/ ReleaseCapital
    \/ CheckKillSwitch

Spec == Init /\ [][Next]_vars

(***************************************************************************)
(* Properties of the RiskManager                                           *)
(***************************************************************************)

\* C5: can_deploy_capital fails closed: with the portfolio value unknown or
\* not positive after the refresh, it returns False for every size.
C5_FailsClosed ==
    (last_call.op = "can_deploy_capital" /\ total_portfolio_value_usd <= 0)
        => last_call.ret = FALSE

\* C6: with a known positive portfolio value P, can_deploy_capital(size)
\* returns True iff deployed + size <= P * max_pct / 100, and it leaves
\* capital_deployed_usd unchanged; P = 1000, 25 percent, deployed = 200,
\* size = 100 is rejected.
C6_CanDeployIff ==
    [][last_call'.op = "can_deploy_capital" =>
          /\ capital_deployed_usd' = capital_deployed_usd
          /\ total_portfolio_value_usd' > 0 =>
                (last_call'.ret <=>
                    (capital_deployed_usd + last_call'.size) * 100
                        <= total_portfolio_value_usd' * MaxCapitalDeploymentPercentage)
          /\ (/\ total_portfolio_value_usd' = 1000
              /\ MaxCapitalDeploymentPercentage = 25
              /\ capital_deployed_usd = 200
              /\ last_call'.size = 100) => last_call'.ret = FALSE]_vars

C6_ScenarioC_Witness ==
    /\ last_call = Call("can_deploy_capital", 100, FALSE, TRUE)
    /\ total_portfolio_value_usd = 1000
    /\ capital_deployed_usd = 200

\* C7: as long as every commit_capital(size) directly follows a
\* can_deploy_capital(size) that returned True,
\* capital_deployed_usd <= total_portfolio_value_usd * max_pct / 100.
C7_DeploymentBound ==
    commits_checked =>
        capital_deployed_usd * 100
            <= total_portfolio_value_usd * MaxCapitalDeploymentPercentage

C10_KillSwitch ==
    (last_call.op = "check_kill_switch" /\ last_call.has_total) =>
        (last_call.ret <=>
            (balance_kill_switch_usd > 0 /\ last_call.size < balance_kill_switch_usd))

(***************************************************************************)
(* Properties of the engine and the executor                               *)
(***************************************************************************)

\* C1: at most one trade attempt is in flight engine-wide: no call of
\* execute_and_monitor_opportunity begins while another has not returned,
\* and a thread inside one holds the trade lock with the busy flag set.
C1_AtMostOneInFlight ==
    /\ Cardinality(InFlight) <= 1
    /\ \A t \in InFlight : trade_lock_owner = t /\ busy

C1_InFlightDuringStop_Witness ==
    \E t \in InFlight, u \in Threads :
        /\ u # t
        /\ pc[u] = "stop_request"
        /\ trade_count >= 1

FailedStatuses == {"timeout", "canceled", "rejected", "error"}

\* C2: every order placed for an opportunity is preceded by a passing
\* check_balances and a passing can_deploy_capital for that opportunity.
C2_RiskGateBeforeOrders ==
    orders # <<>> => {"check_balances", "can_deploy_capital"} \subseteq gate_calls

\* C3: when exactly one leg fills and the other fails or times out, an
\* opposite-side market order is submitted on the filled leg's exchange for
\* that leg's filled amount, and the attempt ends as PartialSuccess
\* (neutralized) or CriticalStuck.
C3_CompensationOnImbalance ==
    \A t \in Threads :
        (/\ pc[t] = "engine_stats"
         /\ ~opp[t].dry_run
         /\ \E n \in {1, 2} :
               /\ leg_status[t][n] \in FilledStatuses
               /\ leg_status[t][3 - n] \in FailedStatuses)
        => \E n \in {1, 2}, i \in DOMAIN orders :
               /\ leg_status[t][n] \in FilledStatuses
               /\ orders[i] = [side |-> BuildLeg(opp[t], 3 - n).side,
                               exchange |-> BuildLeg(opp[t], n).exchange,
                               amount |-> fills[n]]
               /\ result[t] \in {"neutralized", "critical_stuck"}

\* C4: an attempt is reported "filled" (counted in successful_trades) only
\* if both the buy leg and the sell leg reached a filled/closed status.
C4_FilledOnlyIfBothFilled ==
    \A t \in Threads :
        (pc[t] = "engine_stats" /\ result[t] = "filled")
            => /\ leg_status[t][1] \in FilledStatuses
               /\ leg_status[t][2] \in FilledStatuses

\* stop() has set the engine's stop event and called request_stop since the
\* loop was last started.
StopDelivered == stop_evt /\ state_lock_owner = 0

\* C12: a stop request is never lost: once stop() has been called on a
\* running engine, no new scan cycle starts, no new order is submitted, and
\* a monitor loop in flight exits at its next poll.
C12_StopNeverLost ==
    [][StopDelivered =>
          /\ \A t \in Threads : pc'[t] = "cycle" => pc[t] = "cycle"
          /\ Len(orders') <= Len(orders)
          /\ \A t \in Threads :
                 (pc[t] = "monitor" /\ status'[t] # status[t]) => pc'[t] # "monitor"]_vars

\* C13: when a stop is requested while a leg's order is not yet filled, the
\* order's cancellation is attempted; if it fails, the attempt ends with a
\* distinct critical outcome, never with an ordinary status.
C13_CancelFailureEscalates ==
    \A t \in Threads :
        (pc[t] = "engine_stats" /\ cancel_failed) => result[t] = "critical_stuck"

LoopPcs == {"loop_top", "cycle", "is_trade_in_progress", "risk_gate",
            "acquire_trade_lock", "engine_set_busy", "exec_begin",
            "engine_stats", "engine_finally", "loop_exit"} \cup InFlightPcs

\* C14: run() or start() on a running engine is ignored, so at most one
\* engine loop exists; once the loop has exited, is_running() is False, so
\* that a later start() or run() launches a new loop.
C14_StartStopTransitions ==
    /\ Cardinality({t \in Threads : pc[t] \in LoopPcs}) <= 1
    /\ (\A t \in Threads : pc[t] \notin LoopPcs) => ~running

(***************************************************************************)
(* Properties of the async engine and its scanner                          *)
(***************************************************************************)

\* C11: the kill switch is evaluated in every cycle before the scan, and
\* once check_kill_switch has returned True nothing is scanned and no order
\* is placed in that cycle or later: the loop ends and stays ended.
C11_KillSwitchFinal ==
    /\ run_pc \in {"scan_fetch", "scan_compare", "scan_raised", "scan_return",
                   "execute", "sleep"}
          => kill_checked /\ ~kill_switch_tripped
    /\ kill_switch_tripped =>
          /\ ~is_running
          /\ run_pc \in {"loop_top", "finished"}
          /\ order_books = NoBooks
          /\ placed = <<>>

C11_TrippedAfterTrade_Witness ==
    /\ kill_switch_tripped
    /\ run_pc = "finished"
    /\ trades_executed >= 1

\* C15: apart from a stop request or a configured stop condition, only a
\* CriticalStuck outcome or the kill switch ends the main loop; any other
\* error in a cycle is logged and the loop goes on.
C15_OnlyCriticalEndsLoop ==
    run_pc = "finished" =>
        end_cause \in {"stop_request", "stop_condition", "kill_switch",
                       "critical_stuck"}

\* C16: every opportunity the scanner returns has profit_usd strictly
\* greater than min_profit_usd.
C16_ScannerSound ==
    \A n \in DOMAIN opportunities : opportunities[n].profit_usd > MinProfitUsd

C16_BoundaryPairLeftOut_Witness ==
    /\ run_pc = "execute"
    /\ \E b \in Exchanges, s \in Exchanges :
          /\ b # s
          /\ order_books[b].asks # <<>> /\ order_books[b].bids # <<>>
          /\ order_books[s].asks # <<>> /\ order_books[s].bids # <<>>
          /\ order_books[b].asks[1] > 0
          /\ GrossProfitUsd(order_books[b].asks[1], order_books[s].bids[1])
                 = MinProfitUsd
          /\ \A n \in DOMAIN opportunities :
                 ~(opportunities[n].buy_exchange = b
                     /\ opportunities[n].sell_exchange = s)

\* A fetched book pair whose buy side has an ask, whose sell side has a bid
\* and whose profit exceeds min_profit_usd.
ProfitablePair(b, s) ==
    /\ b # s
    /\ order_books[b].fetched /\ order_books[s].fetched
    /\ order_books[b].asks # <<>> /\ order_books[s].bids # <<>>
    /\ order_books[b].asks[1] > 0
    /\ ProfitExceeds(order_books[b].asks[1], order_books[s].bids[1])

Surfaced(b, s) ==
    \E n \in DOMAIN opportunities :
        /\ opportunities[n].symbol = scan_i
        /\ opportunities[n].buy_exchange = b
        /\ opportunities[n].sell_exchange = s

\* C17: for every ordered pair (buy, sell) of distinct exchanges with an ask
\* on the buy book and a bid on the sell book and a profit above
\* min_profit_usd, the scan returns an opportunity, whatever the other
\* sides of the two books hold.
C17_ScannerComplete ==
    run_pc = "scan_return" =>
        \A b \in Exchanges, s \in Exchanges : ProfitablePair(b, s) => Surfaced(b, s)

C19_FetchFailureTolerated ==
    (\E e \in Exchanges, f \in Exchanges :
         ~order_books[e].fetched /\ order_books[f].fetched)
    => /\ run_pc # "scan_raised"
       /\ run_pc = "scan_return" =>
             /\ \A n \in DOMAIN opportunities :
                    /\ order_books[opportunities[n].buy_exchange].fetched
                    /\ order_books[opportunities[n].sell_exchange].fetched
             /\ \A b \in Exchanges, s \in Exchanges :
                    ProfitablePair(b, s) => Surfaced(b, s)

\* C20: a best ask or best bid <= 0 yields no opportunity for the pairs
\* that use it and never makes the scan raise.
C20_BadPriceGuard ==
    /\ run_pc # "scan_raised"
    /\ \A n \in DOMAIN opportunities :
           opportunities[n].buy_price > 0 /\ opportunities[n].sell_price > 0

\* C21: Scenario A: with exchange A at bid 99 / ask 100 and exchange B at
\* bid 103 / ask 104, trade size 100 and no fee, the opportunity at index 0
\* buys on A at 100 and sells on B at 103 with profit 3, and both legs are
\* submitted with amount 1 (trade size / buy price).  The scenario's symbol
\* is the only one the scan found opportunities for.
C21_ScenarioA ==
    \A a \in Exchanges, b \in Exchanges :
        (/\ order_books[a] = ScenarioBookA
         /\ order_books[b] = ScenarioBookB
         /\ \A i \in DOMAIN opportunities : opportunities[i].symbol = scan_i
         /\ TradeSizeUsdt = 100
         /\ run_pc \in {"execute", "sleep"})
        => /\ opportunities # <<>>
           /\ order_books[opportunities[1].buy_exchange] = ScenarioBookA
           /\ order_books[opportunities[1].sell_exchange] = ScenarioBookB
           /\ opportunities[1].buy_price = 100
           /\ opportunities[1].sell_price = 103
           /\ opportunities[1].profit_usd = 3
           /\ placed # <<>> =>
                  /\ placed[1] \in {[side |-> "buy", amount |-> 1, accepted |-> ok,
                                      exchange |-> opportunities[1].buy_exchange] :
                                         ok \in BOOLEAN}
                  /\ placed[2] \in {[side |-> "sell", amount |-> 1, accepted |-> ok,
                                      exchange |-> opportunities[1].sell_exchange] :
                                         ok \in BOOLEAN}

C21_ScenarioA_Witness ==
    /\ run_pc = "sleep"
    /\ placed # <<>>
    /\ order_books = [e \in Exchanges |->
                         IF e = 1 THEN ScenarioBookA
                         ELSE IF e = 2 THEN ScenarioBookB ELSE NoBook]
    /\ opportunities[1].buy_exchange = 1
    /\ opportunities[1].sell_exchange = 2

\* C27: check_balances returns True iff both clients exist, both balances
\* were obtained, the free quote balance on the buy exchange is at least the
\* trade size and the free base balance on the sell exchange is at least the
\* opportunity's amount; it asks for the balances of those two exchanges only.
C27_CheckBalancesIff ==
    bal_check.called =>
        /\ bal_check.result <=>
               /\ bal_check.buy_exchange \in Clients
               /\ bal_check.sell_exchange \in Clients
               /\ bal_check.buy_bal.has
               /\ bal_check.sell_bal.has
               /\ bal_check.buy_bal.USDT >= bal_check.size
               /\ bal_check.sell_bal.BTC >= bal_check.amount
        /\ bal_check.requested \subseteq
               {bal_check.buy_exchange, bal_check.sell_exchange}

C27_Approved_Witness ==
    /\ bal_check.called
    /\ bal_check.result
    /\ bal_check.requested = {bal_check.buy_exchange, bal_check.sell_exchange}
    /\ bal_check.buy_bal.USDT = bal_check.size
    /\ bal_check.sell_bal.BTC = bal_check.amount

\* C28: every balance on which check_balances returns True was fetched from
\* the exchange during that very call; when a refresh fails the call rejects.
C28_NeverStale ==
    (bal_check.called /\ bal_check.result)
        => (bal_check.buy_fetched /\ bal_check.sell_fetched)

\* C29: calculate_dynamic_trade_size returns 0, or a size of at least 1 USDT
\* that exceeds neither max_trade_size_usdt nor the free quote balance times
\* balance_percentage_per_trade / 100; it returns 0 when the computed size is
\* below 1 and when the client or the balance is unavailable.  Sizes are in
\* hundredths of a USDT.
C29_DynamicSizeBounds ==
    dyn_size.called =>
        LET computed == Min(dyn_size.balance.USDT * dyn_size.pct, dyn_size.max_size)
        IN  /\ \/ dyn_size.result = 0
               \/ /\ dyn_size.result >= MinViableSizeUsdt * 100
                  /\ dyn_size.result <= dyn_size.max_size
                  /\ dyn_size.result <= dyn_size.balance.USDT * dyn_size.pct
            /\ (\/ dyn_size.exchange \notin Clients
                \/ ~dyn_size.balance.has
                \/ computed < MinViableSizeUsdt * 100) => dyn_size.result = 0

C29_Capped_Witness ==
    /\ dyn_size.called
    /\ dyn_size.result = dyn_size.max_size
    /\ dyn_size.balance.USDT * dyn_size.pct > dyn_size.max_size

\* check_balances rejected a trade for too little base currency on the sell
\* exchange: the event that suppresses (asset, sell exchange) at bal_check.at.
SuppressionPlaced == bal_check.called /\ bal_check.reason = "insufficient_base"

\* C22: once check_balances has rejected a trade at time T for insufficient
\* base currency on the sell exchange, then for any duration D of the
\* suppression no opportunity selling that asset on that exchange is
\* returned by the scanner, and none is dispatched, before T + D.
C22_Cooldown ==
    [][\A d \in 1..MaxNow :
          (SuppressionPlaced /\ now' < bal_check.at + d)
          => /\ (run_pc = "scan_return" /\ run_pc' # run_pc) =>
                    \A i \in DOMAIN opportunities' :
                        ExchangeName(opportunities'[i].sell_exchange)
                            # bal_check.sell_exchange
             /\ (run_pc = "execute" /\ run_pc' # run_pc) =>
                    \A n \in DOMAIN placed' :
                        placed'[n].side = "sell" =>
                            ExchangeName(placed'[n].exchange) # bal_check.sell_exchange]_vars

\* C23: for the asset other than USDT the rebalancer decides to sell iff
\* value_usd / total_usd_value * 100 > target + threshold, and then tries to
\* sell (value_usd - total_usd_value * target / 100) / price in total, where
\* target is the configured target percent, or default_max_inventory_percent
\* only when no target is configured.  Stated for an enabled rebalancer, a
\* positive portfolio total and an available price.
C23_SellRule ==
    (/\ reb_in.enabled
     /\ reb_in.well_formed
     /\ reb_in.total > 0
     /\ reb_in.price # NoPrice)
    => LET target == IF reb_in.target = NoTarget
                     THEN DefaultMaxInventoryPercent ELSE reb_in.target
       IN  /\ reb_decision.sell <=> OverTarget(reb_in.value, reb_in.total, target)
           /\ reb_decision.sell =>
                  reb_decision.total_amount_to_sell =
                      TotalAmountToSell(SurplusUsd(reb_in.value, reb_in.total, target),
                                        reb_in.price)

\* The amount left to sell after the k-th visited exchange.
AmountAfter(k) ==
    IF k < Len(reb_events) THEN reb_events[k + 1].before ELSE amount_left

\* C24: run_rebalancing_check always returns to its caller; after a failed
\* sell or a failed balance read it goes on with the next exchange, so a
\* cycle that decided to sell ends only with the surplus sold or with every
\* exchange visited, and it logs the warning exactly when surplus remains.
C24_CycleNeverErrors ==
    reb_pc = "done" =>
        /\ reb_result = "returned"
        /\ reb_decision.sell =>
               /\ amount_left <= AmountEpsilon \/ Len(reb_events) = Len(ClientOrder)
               /\ reb_warned <=> amount_left > AmountEpsilon

C24_FailedThenSold_Witness ==
    /\ reb_pc = "done"
    /\ Len(reb_events) = Len(ClientOrder)
    /\ reb_events[1].kind = "failed"
    /\ reb_events[Len(ClientOrder)].kind = "sold"
    /\ reb_warned

\* C25: no sell order is submitted whose notional sell_amount * price is
\* below the market's minimum order cost when one is defined, and an
\* exchange skipped for that reason leaves the amount left to sell unchanged.
C25_MinCostRespected ==
    \A k \in DOMAIN reb_events :
        /\ \A o \in {reb_events[k].order[n] : n \in DOMAIN reb_events[k].order} :
               o.min_cost # NoMinCost => o.amount * o.price >= o.min_cost * 100000
        /\ reb_events[k].kind = "below_min_cost" => AmountAfter(k) = reb_events[k].before

C25_SkippedBelowMin_Witness ==
    /\ reb_pc = "done"
    /\ Len(reb_events) = Len(ClientOrder)
    /\ reb_events[1].kind = "sold"
    /\ reb_events[1].order[1].min_cost # NoMinCost
    /\ reb_events[Len(ClientOrder)].kind = "below_min_cost"
    /\ amount_left > AmountEpsilon

C30_DryRunSuccess ==
    (xt_call.method = "execute_and_monitor" /\ xt_call.dry_run)
    => /\ xt_call.raised = "none"
       /\ xt_call.status = "SUCCESS"
       /\ xt_call.has_profit
       /\ xt_call.profit = xt_call.net_profit_usd
       /\ xt_call.place_calls = 1
       /\ xt_call.monitor_calls = 1
       /\ xt_call.orders = <<>>
       /\ Len(xt_call.logged) = 1
       /\ \A n \in DOMAIN xt_call.logged :
              /\ xt_call.logged[n].status = "SUCCESS"
              /\ xt_call.logged[n].symbol = xt_call.symbol

(***************************************************************************)
(* Properties of the ledger under concurrent callers                       *)
(***************************************************************************)

\* C31: in _execute_arbitrage both order placements are issued, a placement
\* that raises never keeps the other's result from being awaited and read,
\* the imbalance test is made only after both placements completed and finds
\* an imbalance exactly when one failed and the other did not, and the
\* method does not raise because of a failed leg.
C31_LegFailureIsolation ==
    /\ xa_pc # "raised"
    /\ xa_imbalance # "untested" => \A l \in Legs : xa_legs[l] \in LegDone
    /\ xa_pc = "returned" =>
          /\ \A l \in Legs : xa_legs[l] \in LegDone /\ xa_seen[l] = xa_legs[l]
          /\ xa_imbalance \in {"imbalance", "balanced"}
          /\ (xa_imbalance = "imbalance") <=>
                 (Cardinality({l \in Legs : xa_legs[l] = "raised"}) = 1)

\* The buy placement raised before the sell placement completed, the sell
\* went through, and the method returned having flagged the imbalance.
C31_BuyRaisedSellSeen_Witness ==
    /\ xa_pc = "returned"
    /\ xa_seen = [l \in Legs |-> IF l = "buy" THEN "raised" ELSE "ok"]
    /\ xa_imbalance = "imbalance"
    /\ trades_executed = 1

\* What a pass of the monitor loop leaves behind, as C32 has it: the loop
\* goes on only with a status that is not final; a poll that raised kept the
\* previous status, or open, and did not end the loop; a poll of the open
\* orders gave open for a listed order and closed otherwise; and the loop
\* ended on a final status, on the timeout or on a stop.
MonitorLoopSound ==
    /\ pw_pc = "loop" => pw_status \notin TerminalStatuses \cup {"timeout"}
    /\ pw_poll.kind = "raised" =>
          /\ pw_poll.got = (IF pw_poll.before = NoStatus THEN "open" ELSE pw_poll.before)
          /\ pw_exit # "final"
    /\ pw_poll.kind = "listed" => pw_poll.got = "open" /\ ~has_fetch_order
    /\ pw_poll.kind = "not_listed" => pw_poll.got = "closed" /\ ~has_fetch_order
    /\ pw_poll.kind = "fetch_order" => has_fetch_order
    /\ pw_exit = "final" => pw_poll.got \in TerminalStatuses
    /\ pw_exit = "timeout" => pw_elapsed >= timeout_s
    /\ pw_exit = "stop" => exec_stop_evt
    /\ pw_pc \in {"after_loop", "returned"} => pw_exit \in {"final", "timeout", "stop"}

\* The pass made once the timeout has elapsed or a stop is pending ends the
\* loop.
MonitorEndsAtOnce ==
    (/\ pw_pc = "loop"
     /\ exec_stop_evt \/ pw_elapsed >= timeout_s
     /\ loopVars' # loopVars) => pw_pc' = "after_loop"

\* C32: every _place_and_wait monitor loop terminates: it ends as soon as
\* the polled status is closed, filled, canceled or rejected, or the timeout
\* has elapsed, or a stop was requested; a status-fetch error keeps the
\* previous status, or open, and never ends the loop; and a client that
\* cannot fetch an order has the status derived from the open orders.
C32_MonitorTerminates ==
    /\ []MonitorLoopSound
    /\ [][MonitorEndsAtOnce]_vars
    /\ (pw_pc = "loop") ~> (pw_pc = "after_loop")

\* A loop that polled the open orders, had its latest poll raise after an
\* earlier poll had listed the order, and ran into the default timeout.
C32_RaisedThenTimeout_Witness ==
    /\ pw_pc = "after_loop"
    /\ pw_exit = "timeout"
    /\ ~has_fetch_order
    /\ pw_poll.kind = "raised"
    /\ pw_poll.before = "open"
    /\ timeout_s = DefaultMonitorTimeout

\* C33: when a leg's monitor loop reaches the hard timeout with the order
\* not filled, a cancel of the order is attempted before _place_and_wait
\* returns, and the attempt either cancels the order or fails; a timed-out
\* order is never left open without a cancel attempt.
C33_TimeoutCancelAttempt ==
    (pw_pc = "returned" /\ pw_exit = "timeout") =>
        /\ pw_cancel \in {"canceled", "raised"}
        /\ pw_cancel = "canceled" => pw_status = "canceled"

\* Where a thread is inside the try statement of _try_execute_first_safe:
\* from trade_executor.set_busy(True) to the end of the finally clause.
TradeSectionPcs == {"exec_begin", "engine_stats", "engine_finally"} \cup InFlightPcs
InTradeSection == {t \in Threads : pc[t] \in TradeSectionPcs}

\* C35: whenever no execution is in progress the executor's busy flag is
\* False: every exit path of an execution (return, exception, stop) clears
\* it, so a finished or failed trade never blocks a later cycle.
C35_BusyClearedOnExit ==
    /\ busy => InTradeSection # {}
    /\ \A t \in Threads :
          (pc[t] = "is_trade_in_progress" /\ InTradeSection = {}) => ~busy

\* One execution raised and one returned, both are over, and the flag is
\* clear.
C35_ClearAfterRaise_Witness ==
    /\ critical_failures = 1
    /\ trade_count = 1
    /\ InTradeSection = {}
    /\ ~busy

\* What one step does to the statistics, as C36 has it.
StatsStep ==
    /\ trade_count' # trade_count =>
          /\ trade_count' = trade_count + 1
          /\ successful_trades' >= successful_trades
          /\ failed_trades' >= failed_trades
          /\ neutralized_trades' >= neutralized_trades
          /\ successful_trades' + failed_trades' + neutralized_trades'
                = successful_trades + failed_trades + neutralized_trades + 1
          /\ critical_failures' = critical_failures
    /\ critical_failures' # critical_failures =>
          /\ critical_failures' = critical_failures + 1
          /\ UNCHANGED <<trade_count, successful_trades, failed_trades,
                         neutralized_trades>>
    /\ \A t \in Threads :
          /\ (pc[t] = "engine_stats" /\ pc'[t] # pc[t]) => trade_count' = trade_count + 1
          /\ (pc[t] = "exec_begin" /\ pc'[t] = "engine_finally") =>
                critical_failures' = critical_failures + 1

\* C36: whenever no trade execution is in progress, trade_count =
\* successful_trades + failed_trades + neutralized_trades; an execution that
\* returns adds 1 to trade_count and to exactly one of the three outcome
\* counters, and an execution that raises adds 1 to critical_failures only.
C36_StatsConsistent ==
    /\ [](InTradeSection = {} =>
            trade_count = successful_trades + failed_trades + neutralized_trades)
    /\ [][StatsStep]_vars

\* A stopped or failed execution and a raised one have both been counted.
C36_FailedAndCritical_Witness ==
    /\ failed_trades = 1
    /\ critical_failures = 1
    /\ successful_trades = 0
    /\ InTradeSection = {}

\* C37: on_trade_started is emitted before a trade's execution begins and
\* exactly one on_trade_finished after it, on the normal and on the exception
\* path; no on_trade_finished comes without its on_trade_started, and an
\* exception of a callback never takes the engine out of the trade.
C37_EventsPaired ==
    LET started == emitted["on_trade_started"]
        finished == emitted["on_trade_finished"]
    IN  /\ finished <= started
        /\ \A t \in Threads :
              /\ pc[t] \in TradeSectionPcs \ {"engine_finally"} => started = finished + 1
              /\ pc[t] = "engine_finally" => started = finished
        /\ InTradeSection = {} =>
              /\ started = finished
              /\ finished = trade_count + critical_failures

\* Two trades are over, one on the normal path with a filled result and one
\* on the exception path, each with its pair of events.
C37_BothPaths_Witness ==
    /\ emitted = [on_trade_started |-> 2, on_trade_finished |-> 2]
    /\ successful_trades = 1
    /\ critical_failures = 1
    /\ InTradeSection = {}

\* C34: after any sequence of set_runtime_params calls min_poll_s <=
\* max_poll_s; so within one monitor loop the sleep interval starts at
\* min_poll_s, never decreases from one poll to the next, and lies in
\* [min_poll_s, max_poll_s].
C34_PollIntervalBounds ==
    /\ min_poll_s <= max_poll_s
    /\ pw_pc = "loop" =>
          /\ pw_slept = 0 => next_sleep = min_poll_s
          /\ pw_slept <= next_sleep
          /\ min_poll_s <= next_sleep
          /\ next_sleep <= max_poll_s

\* A step that executes a trade is the only one of its cycle and adds one.
OneTradePerCycle ==
    trades_executed' # trades_executed =>
        /\ trades_executed' = trades_executed + 1
        /\ run_pc = "execute"
        /\ placed = <<>>

\* C38: with max_trades = N configured (N >= 0) at most N trade attempts are
\* made in a run: trades_executed <= N always, at most one trade is executed
\* per cycle, and once trades_executed >= N the loop ends at the start of
\* the next cycle without fetching the portfolio, scanning or placing orders.
C38_MaxTrades ==
    /\ [](max_trades # NoMaxTrades =>
            /\ trades_executed <= max_trades
            /\ trades_executed >= max_trades =>
                  run_pc \in {"not_started", "sleep", "loop_top", "stop_conditions",
                              "finished"})
    /\ [][OneTradePerCycle]_vars

\* With max_trades = 1, below the model's own bound, the one trade was made
\* and the next cycle's stop check has ended the loop.
C38_StoppedAtLimit_Witness ==
    /\ max_trades = 1
    /\ max_trades < MaxAsyncTrades
    /\ trades_executed = 1
    /\ run_pc = "finished"
    /\ end_cause = "stop_condition"

\* The invocations made so far but the latest.
EarlierCalls == {k \in 1 .. Len(rt_calls) : k < Len(rt_calls)}

\* C39: a function wrapped by retry_ccxt_call is invoked at most 3 times per
\* call; it is invoked again only after a network-type error; the third
\* network error in a row is raised to the caller; an ExchangeError is raised
\* at once, with no retry; and a successful invocation returns with no
\* further invocation.
C39_RetryAtMostThrice ==
    /\ Len(rt_calls) <= 3
    /\ \A k \in EarlierCalls : rt_calls[k].outcome \in NetworkTypes
    /\ rt_calls # <<>> =>
          LET last == rt_calls[Len(rt_calls)].outcome
          IN  /\ last = "ok" <=> rt_result = "returned"
              /\ last = "ExchangeError" => rt_result = "raised"
              /\ last \in NetworkTypes =>
                    rt_result = (IF Len(rt_calls) = 3 THEN "raised" ELSE "none")
              /\ rt_result = "raised" => last # "ok"

\* Two network errors of different kinds, then the third invocation's
\* network error is raised to the rebalancer.
C39_ThirdErrorRaised_Witness ==
    /\ Len(rt_calls) = 3
    /\ rt_calls[1].outcome = "RequestTimeout"
    /\ rt_calls[2].outcome = "ExchangeNotAvailable"
    /\ rt_calls[3].outcome = "NetworkError"
    /\ rt_result = "raised"
    /\ rt_delay = 4

\* C40: the rebalancer never oversells: the sell orders that reached the
\* exchanges in one run, every submission through the retry wrapper and
\* those whose response was lost included, sum to at most the computed
\* surplus amount; each order's amount is at most the exchange's free
\* balance; and amount_left is reduced only by the orders whose placement
\* succeeded.
C40_NeverOversells ==
    reb_pc \in {"selling", "placing", "done"} =>
        /\ reb_submitted <= reb_decision.total_amount_to_sell
        /\ rt_order.amount <= rt_order.available
        /\ \A k \in 1 .. Len(reb_events) :
              AmountAfter(k) = reb_events[k].before
                  - (IF reb_events[k].kind = "sold"
                     THEN reb_events[k].order[1].amount ELSE 0)

\* C9: when commit_capital, release_capital and can_deploy_capital run
\* concurrently, no update is lost: once all calls have returned,
\* capital_deployed_usd is the result of some serial order of the calls.
C9_Serializable ==
    (\A t \in RaceThreads : race_pc[t] = "done") =>
        capital_deployed_usd \in SerialResults(RaceThreads, race_d0)
====
